---- MODULE Spec2Model ----
(***************************************************************************)
(* CometMigrator (src/web/AaveV2Migrator.tsx, lines 1296-1694): the        *)
(* flash-liquidity funded migration of a Compound v2 position into Comet.  *)
(*                                                                         *)
(* One EVM transaction is one top-level call.  The calls nested inside it  *)
(* are kept on `stack`; a revert anywhere restores the ledger and the      *)
(* guard to their values at the start of the transaction (`pre`).          *)
(* The collaborators (cTokens, ERC-20 tokens, Uniswap pools, Comet, WETH)  *)
(* are not part of the repository's sources: they are modelled from their  *)
(* interfaces as the specification describes them.                         *)
(*                                                                         *)
(* The page that prepares the call (function AaveV2Migrator, lines 250-    *)
(* 1295: the reducer, the refresh of the account state, validateForm) is   *)
(* a second state machine over its own variables, SpecUI.                  *)
(***************************************************************************)
EXTENDS Integers, Sequences, FiniteSets, TLC

\* ---------------------------------------------------------------- bounds
MaxSteps == 2          \* longest borrowData array of a plan
MaxColl == 1           \* longest collateral array of a plan
MaxDeviations == 1     \* calls a venue may make outside the pool protocol, per behaviour
UintMax == 15          \* stands for type(uint256).max
MaxItems == 2          \* longest collateral array of a plan, where stray balances are followed

\* -------------------------------------------------------------- universe
Users == {"alice", "bob"}
Pools == {"poolA", "poolB"}
Markets == {"cUSDC", "cDAI"}
CollTokens == {"cETH", "cUNI"}
Tokens == {"USDC", "DAI", "UNI", "WETH", "ETH", "cUNI", "cETH"}
Holders == Users \cup Pools \cup Markets \cup CollTokens
             \cup {"migrator", "comet", "sweepee", "weth", "mallory"}
Callers == Users \cup Pools \cup {"mallory"}

\* immutables written by the constructor
comet == "comet"
cETH == "cETH"
weth == "WETH"
sweepee == "sweepee"
BaseToken == "USDC"

\* --------------------------------------------------- collaborator facts
Underlying(c) ==
  CASE c = "cUSDC" -> "USDC"
    [] c = "cDAI" -> "DAI"
    [] c = "cUNI" -> "UNI"
    [] OTHER -> "ETH"

Token0(p) == IF p = "poolA" THEN "USDC" ELSE "DAI"
Token1(p) == IF p = "poolA" THEN "DAI" ELSE "USDC"

\* the fee of a pool
PoolFee(p) == IF p = "poolA" THEN 1 ELSE 2

\* fee a pool charges for a flash of `amt`
FlashFee(p, amt) == IF amt = 0 THEN 0 ELSE PoolFee(p)

\* input a pool asks for an exact output of `out`: its price times the output, plus its fee
SwapIn(p, out) == 2 * out + PoolFee(p)

\* ------------------------------------------------------------- the state
VARIABLES
  inMigration,   \* the reentrancy guard
  ledger,        \* every balance: debt, bal, supplied, borrowed
  events,        \* Migrated events emitted (reverted with the transaction)
  stack,         \* frames of the calls in progress, outermost first
  pre,           \* ledger, guard and events at the start of the transaction
  outcome,       \* "idle", "running", "success" or "reverted"
  lastError,     \* the error of the last revert
  log,           \* what the current transaction did, in order (kept on revert)
  txn,           \* the top-level call of the current transaction and its arguments
  committed,     \* migrate calls that have returned without a revert
  deviations     \* calls made so far outside the pool protocol

\* the page that prepares the call of migrate (function AaveV2Migrator)
VARIABLES
  state,         \* the state of useReducer(reducer, initialState)
  account,       \* what the chain holds for the account, as a refresh reads it
  cometData,     \* what the page is given about the target (cometState[1])
  refresh,       \* the refresh in flight: the reducer state its closure holds, or none
  submitted,     \* what the last click on migrate submitted
  parsesEmpty,   \* how the number helpers read the empty string
  dispatches,    \* dispatches of the user so far
  polls,         \* refreshes started so far
  moves          \* changes of the account on the chain so far

contractVars == <<inMigration, ledger, events, stack, pre, outcome, lastError, log, txn,
                  committed, deviations>>

uiVars == <<state, account, cometData, refresh, submitted, parsesEmpty, dispatches, polls, moves>>

vars == <<inMigration, ledger, events, stack, pre, outcome, lastError, log, txn, committed,
          deviations, state, account, cometData, refresh, submitted, parsesEmpty, dispatches,
          polls, moves>>

NoError == [name |-> "none", loc |-> 0, code |-> 0]
Err(n, l, c) == [name |-> n, loc |-> l, code |-> c]

InitLedger ==
  [ debt |-> [u \in Users |-> [m \in Markets |->
                IF u = "alice" THEN 2 ELSE 1]],
    bal |-> [t \in Tokens |-> [h \in Holders |->
                CASE t = "USDC" /\ h \in Pools -> 4
                  [] t = "USDC" /\ h = "comet" -> 9
                  [] t = "DAI" /\ h \in Pools -> 4
                  [] t = "cUNI" /\ h = "alice" -> 2
                  [] t = "cUNI" /\ h = "bob" -> 1
                  [] t = "cETH" /\ h \in Users -> 1
                  [] t = "UNI" /\ h = "cUNI" -> 3
                  [] t = "ETH" /\ h = "cETH" -> 2
                  [] t \in {"USDC", "UNI", "cUNI", "ETH"} /\ h = "mallory" -> 1
                  [] OTHER -> 0]],
    supplied |-> [u \in Users |-> [t \in {"UNI", "WETH"} |-> 0]],
    borrowed |-> [u \in Users |-> 0] ]

\* ------------------------------------------------------------ the page at its start
\* const initialState: MigratorState = { type: StateType.Loading, data: { error: null } }
initialState == [type |-> "Loading", data |-> [error |-> "null"]]

\* networkConfig.aTokens
Syms == {"aUSDC", "aWETH"}

\* the account on the chain: balances and variable debts in both tokens, a stable debt in USDC
InitAccount ==
  [migratorEnabled |-> TRUE,
   tokens |-> [sym \in Syms |->
     [balance |-> 2,
      borrowBalanceStable |-> IF sym = "aUSDC" THEN 1 ELSE 0,
      borrowBalanceVariable |-> 1,
      allowance |-> 1,
      collateralFactor |-> 1,
      price |-> 1]]]

\* the target as the page sees it: the base asset and the one collateral asset it lists
CometData(balanceOfComet, supplyCap) ==
  [baseAsset |-> [balance |-> 0, balanceOfComet |-> balanceOfComet, price |-> 1],
   collateralAssets |->
     [aWETH |-> [balance |-> 2, totalSupply |-> 1, supplyCap |-> supplyCap,
                 collateralFactor |-> 1, price |-> 1]]]

NothingSent == [kind |-> "nothing"]
NoRefresh == [inFlight |-> FALSE]

PageInit(enabled, balanceOfComet, supplyCap, units, number) ==
  /\ state = initialState
  /\ account = [InitAccount EXCEPT !.migratorEnabled = enabled]
  /\ cometData = CometData(balanceOfComet, supplyCap)
  /\ refresh = NoRefresh
  /\ submitted = NothingSent
  /\ parsesEmpty = [units |-> units, number |-> number]
  /\ dispatches = 0 /\ polls = 0 /\ moves = 0

ContractInit ==
  /\ inMigration = 0
  /\ ledger = InitLedger
  /\ events = << >>
  /\ stack = << >>
  /\ pre = [ledger |-> InitLedger, inMigration |-> 0, events |-> << >>]
  /\ outcome = "idle"
  /\ lastError = NoError
  /\ log = << >>
  /\ txn = [fn |-> "none", caller |-> "none", collateral |-> << >>, borrowData |-> << >>]
  /\ committed = 0
  /\ deviations = 0

Init == ContractInit /\ PageInit(TRUE, 2, 2, FALSE, TRUE)

\* ------------------------------------------------------------ the inputs
SeqsUpTo(S, n) == UNION {[1..k -> S] : k \in 0..n}

\* a loan is taken for the market of the base asset, a swap for the other market
BorrowDataSet ==
  {[borrowCToken |-> IF f THEN "cUSDC" ELSE "cDAI", borrowAmount |-> a,
    pool |-> p, isFlashLoan |-> f] :
      a \in {1, UintMax}, p \in Pools, f \in BOOLEAN}

CollateralSet == [cToken : CollTokens, amount : {0, 1, UintMax}]


\* --------------------------------------------- threading a call's effects
\* S = [l, ev, log, err]: the ledger, the events, the log so far and the first failure
Ok(S) == S.err = NoError
Fail(S, e) == [S EXCEPT !.err = e]
Ev(e, step, who, tok, amt) == [e |-> e, step |-> step, who |-> who, tok |-> tok, amt |-> amt]
Logged(S, entry) == IF Ok(S) THEN [S EXCEPT !.log = Append(@, entry)] ELSE S

Move(l, tok, from, to, amt) ==
  [l EXCEPT !.bal[tok][from] = @ - amt, !.bal[tok][to] = @ + amt]

\* ERC-20 transfer of a token that reverts when the sender's balance is short
Transfer(S, tok, from, to, amt) ==
  IF ~Ok(S) THEN S
  ELSE IF S.l.bal[tok][from] < amt THEN Fail(S, Err("TransferFailed", 0, 0))
  ELSE [S EXCEPT !.l = Move(@, tok, from, to, amt)]

\* CErc20.borrowBalanceCurrent(user)
borrowBalanceCurrent(l, market, user) == l.debt[user][market]

\* CErc20.repayBorrowBehalf(user, amount), called by the migrator: its error code
\* (0 = success); uint max repays the whole debt
RepaidAmount(l, market, user, amount) ==
  IF amount = UintMax THEN l.debt[user][market] ELSE amount

RepayCode(l, market, user, amount) ==
  LET amt == RepaidAmount(l, market, user, amount) IN
  IF amt > l.debt[user][market] THEN 9
  ELSE IF l.bal[Underlying(market)]["migrator"] < amt THEN 13
  ELSE 0

RepayApply(l, market, user, amount) ==
  LET amt == RepaidAmount(l, market, user, amount) IN
  [Move(l, Underlying(market), "migrator", market, amt)
     EXCEPT !.debt[user][market] = @ - amt]

\* ------------------------------------------------- migrateCollateralAndBorrow
\* (the branches of the sentinel test exchanged)
CollateralAmountSwapped(l, item, user) ==
  IF item.amount = UintMax THEN item.amount ELSE l.bal[item.cToken][user]

\* the amount of one collateral item pulled from the user
CollateralAmount(l, item, user) ==
  IF item.amount = UintMax THEN l.bal[item.cToken][user] ELSE item.amount

\* CToken.transferFrom(user, migrator, amt): false when the user's balance is short
TransferFromOk(l, cToken, user, amt) == l.bal[cToken][user] >= amt

\* CToken.redeem(n) by the migrator: its error code (0 = success)
RedeemCode(l, cToken, n) ==
  IF l.bal[Underlying(cToken)][cToken] < n THEN 14 ELSE 0

RedeemApply(l, cToken, n) ==
  [Move(l, Underlying(cToken), cToken, "migrator", n)
     EXCEPT !.bal[cToken]["migrator"] = @ - n]

\* IWETH9.deposit{value: v}() by the migrator
WethDeposit(l, v) ==
  [Move(l, "ETH", "migrator", "weth", v) EXCEPT !.bal["WETH"]["migrator"] = @ + v]

\* (no cToken taken for the native market)
WrapsNativeNever(cToken) == FALSE

\* **WHEN** cToken == cETH
WrapsNative(cToken) == cToken = cETH

\* the asset supplied for a collateral item
SuppliedAsset(cToken) == IF cToken = cETH THEN weth ELSE Underlying(cToken)

\* Comet.supplyTo(user, asset, amt) by the migrator: reverts for an asset Comet does not list
CometSupplyTo(S, user, asset, amt) ==
  IF ~Ok(S) THEN S
  ELSE IF asset \notin DOMAIN S.l.supplied[user] THEN Fail(S, Err("CometRevert", 0, 0))
  ELSE LET T == Transfer(S, asset, "migrator", comet, amt) IN
       IF ~Ok(T) THEN T
       ELSE Logged([T EXCEPT !.l.supplied[user][asset] = @ + amt],
                   Ev("supply", 0, user, asset, amt))

\* Comet.withdrawFrom(user, migrator, baseToken, amt): borrows for the user, pays the migrator
CometWithdrawFrom(S, user, baseToken, amt) ==
  IF ~Ok(S) THEN S
  ELSE IF baseToken # BaseToken \/ S.l.bal[baseToken][comet] < amt
    THEN Fail(S, Err("CometRevert", 1, 0))
  ELSE Logged([S EXCEPT !.l = [Move(@, baseToken, comet, "migrator", amt)
                                 EXCEPT !.borrowed[user] = @ + amt]],
              Ev("borrow", 0, user, baseToken, amt))

\* the list of valid collateral tokens: no statement of the contract adds to it, and the
\* constructor leaves it empty
collateralTokens == {}

\* (the result of transferFrom not looked at)
TransferFailureIgnored(transferSuccess) == FALSE

\* the test on the result of transferFrom
TransferFailed(transferSuccess) == ~transferSuccess

\* one iteration of the loop over migrationData.collateral (i is 0-based)
CollateralItem(S, migrationData, i) ==
  LET collateral == migrationData.collateral[i + 1]
      user == migrationData.user
      amt == CollateralAmount(S.l, collateral, user)
      transferSuccess == TransferFromOk(S.l, collateral.cToken, user, amt)
      moved == IF transferSuccess THEN amt ELSE 0
  IN
  IF TransferFailed(transferSuccess)
    THEN Fail(S, Err("CTokenTransferFailure", 0, 0))
  ELSE
    LET S1 == Logged([S EXCEPT !.l = Move(@, collateral.cToken, user, "migrator", moved)],
                     Ev("pull", i, user, collateral.cToken, amt))
        held == S1.l.bal[collateral.cToken]["migrator"]
        err == RedeemCode(S1.l, collateral.cToken, held)
    IN
    IF err # 0 THEN Fail(S1, Err("CompoundV2Error", 1 + i, err))
    ELSE
      LET S2 == [S1 EXCEPT !.l = RedeemApply(@, collateral.cToken, held)]
          S3 == IF WrapsNative(collateral.cToken)
                  THEN [S2 EXCEPT !.l = WethDeposit(@, S2.l.bal["ETH"]["migrator"])]
                  ELSE S2
          underlying == SuppliedAsset(collateral.cToken)
      IN CometSupplyTo(S3, user, underlying, S3.l.bal[underlying]["migrator"])

RECURSIVE CollateralLoop(_, _, _)
CollateralLoop(S, migrationData, i) ==
  IF ~Ok(S) \/ i >= Len(migrationData.collateral) THEN S
  ELSE CollateralLoop(CollateralItem(S, migrationData, i), migrationData, i + 1)

\* (the two amounts of the event in the other order)
MigratedAmountsSwapped(migrationData, borrowAmountWithFee) ==
  [user |-> migrationData.user, collateral |-> migrationData.collateral,
   repayAmount |-> borrowAmountWithFee, borrowAmountWithFee |-> 0]

\* the Migrated event (its repayAmount field is always 0)
Migrated(migrationData, borrowAmountWithFee) ==
  [user |-> migrationData.user, collateral |-> migrationData.collateral,
   repayAmount |-> 0, borrowAmountWithFee |-> borrowAmountWithFee]

\* (the borrow made before the collateral is moved)
migrateBorrowThenCollateral(S, migrationData, borrowAmountWithFee) ==
  LET S1 == CometWithdrawFrom(S, migrationData.user, migrationData.baseToken,
                              borrowAmountWithFee)
      S2 == CollateralLoop(S1, migrationData, 0)
  IN IF ~Ok(S2) THEN S2
     ELSE Logged([S2 EXCEPT !.ev = Append(@, Migrated(migrationData, borrowAmountWithFee))],
                 Ev("emit", 0, migrationData.user, migrationData.baseToken,
                    borrowAmountWithFee))

migrateCollateralAndBorrow(S, migrationData, borrowAmountWithFee) ==
  LET S1 == CollateralLoop(S, migrationData, 0)
      S2 == CometWithdrawFrom(S1, migrationData.user, migrationData.baseToken,
                              borrowAmountWithFee)
  IN IF ~Ok(S2) THEN S2
     ELSE Logged([S2 EXCEPT !.ev = Append(@, Migrated(migrationData, borrowAmountWithFee))],
                 Ev("emit", 0, migrationData.user, migrationData.baseToken,
                    borrowAmountWithFee))

\* ------------------------------------------------------------ call frames
\* fn "migrate": migrate waiting for pool.flash / pool.swap to return
\* fn "pool": a pool inside flash or swap; a0, a1 are the arguments of its callback,
\*            req0, req1 the balances it requires when the callback has returned,
\*            calls the number of callbacks that have returned to it
\* fn "callback": a handler waiting for the next step's pool to return; it still owes
\*            `owed` of `payTok` to `pool`
Frame(fn, pool, kind, data, a0, a1, req0, req1, owed, payTok) ==
  [fn |-> fn, pool |-> pool, kind |-> kind, data |-> data, a0 |-> a0, a1 |-> a1,
   req0 |-> req0, req1 |-> req1, calls |-> 0, owed |-> owed, payTok |-> payTok]

Top(stk) == stk[Len(stk)]
Pop(stk) == SubSeq(stk, 1, Len(stk) - 1)
Locked(stk, p) == \E i \in 1..Len(stk) : stk[i].fn = "pool" /\ stk[i].pool = p

\* R = [S, stk]: the effects and the frames after a call into a pool
\* IUniswapV3Pool.flash(migrator, amount0, amount1, data), up to its callback
PoolFlash(S, stk, p, amount0, amount1, data) ==
  IF Locked(stk, p) THEN [S |-> Fail(S, Err("PoolRevert", 0, 0)), stk |-> stk]
  ELSE
    LET fee0 == FlashFee(p, amount0)
        fee1 == FlashFee(p, amount1)
        req0 == S.l.bal[Token0(p)][p] + fee0
        req1 == S.l.bal[Token1(p)][p] + fee1
        S1 == Transfer(Transfer(S, Token0(p), p, "migrator", amount0),
                       Token1(p), p, "migrator", amount1)
    IN [S |-> S1,
        stk |-> Append(stk, Frame("pool", p, "flash", data, fee0, fee1, req0, req1, 0, "none"))]

\* IUniswapV3Pool.swap(migrator, zeroForOne, -amount, limit, data), up to its callback
PoolSwap(S, stk, p, zeroForOne, amount, data) ==
  IF Locked(stk, p) \/ amount = 0
    THEN [S |-> Fail(S, Err("PoolRevert", 1, 0)), stk |-> stk]
  ELSE
    LET tokOut == IF zeroForOne THEN Token1(p) ELSE Token0(p)
        tokIn == IF zeroForOne THEN Token0(p) ELSE Token1(p)
        in == SwapIn(p, amount)
        S1 == Transfer(S, tokOut, p, "migrator", amount)
        reqIn == S.l.bal[tokIn][p] + in
    IN [S |-> S1,
        stk |-> Append(stk, Frame("pool", p, "swap", data,
                                  IF zeroForOne THEN in ELSE 0 - amount,
                                  IF zeroForOne THEN 0 - amount ELSE in,
                                  IF zeroForOne THEN reqIn ELSE 0,
                                  IF zeroForOne THEN 0 ELSE reqIn, 0, "none"))]

\* -------------------------------------------------------- flashLoanOrSwap
\* (the amount asked on the side of the pair that is not the underlying)
flashLoanOrSwapOtherSide(S, stk, borrowData, step, callbackData) ==
  IF step + 1 > Len(borrowData)
    THEN [S |-> Fail(S, Err("Panic", 50, 0)), stk |-> stk]
  ELSE
    LET initialBorrowData == borrowData[step + 1]
        borrowToken == Underlying(initialBorrowData.borrowCToken)
        isPoolToken0 == Token0(initialBorrowData.pool) # borrowToken
        repayAmount == initialBorrowData.borrowAmount
        S1 == Logged(S, Ev(IF initialBorrowData.isFlashLoan THEN "flash" ELSE "swap",
                           step, initialBorrowData.pool, borrowToken, repayAmount))
    IN IF initialBorrowData.isFlashLoan
         THEN PoolFlash(S1, stk, initialBorrowData.pool,
                        IF isPoolToken0 THEN repayAmount ELSE 0,
                        IF isPoolToken0 THEN 0 ELSE repayAmount, callbackData)
         ELSE PoolSwap(S1, stk, initialBorrowData.pool, ~isPoolToken0, repayAmount,
                       callbackData)

flashLoanOrSwap(S, stk, borrowData, step, callbackData) ==
  IF step + 1 > Len(borrowData)
    THEN [S |-> Fail(S, Err("Panic", 50, 0)), stk |-> stk]
  ELSE
    LET initialBorrowData == borrowData[step + 1]
        borrowToken == Underlying(initialBorrowData.borrowCToken)
        isPoolToken0 == Token0(initialBorrowData.pool) = borrowToken
        repayAmount == initialBorrowData.borrowAmount
        S1 == Logged(S, Ev(IF initialBorrowData.isFlashLoan THEN "flash" ELSE "swap",
                           step, initialBorrowData.pool, borrowToken, repayAmount))
    IN IF initialBorrowData.isFlashLoan
         THEN PoolFlash(S1, stk, initialBorrowData.pool,
                        IF isPoolToken0 THEN repayAmount ELSE 0,
                        IF isPoolToken0 THEN 0 ELSE repayAmount, callbackData)
         ELSE PoolSwap(S1, stk, initialBorrowData.pool, ~isPoolToken0, repayAmount,
                       callbackData)

\* ------------------------------------ uniswapV3FlashCallback / uniswapV3SwapCallback
\* (the total and the step in each other's field)
MigrationCallbackDataSwapped(user, borrowData, collateral, baseToken, total, step) ==
  [user |-> user, borrowData |-> borrowData, collateral |-> collateral,
   baseToken |-> baseToken, totalBaseToBorrow |-> step, step |-> total]

MigrationCallbackData(user, borrowData, collateral, baseToken, total, step) ==
  [user |-> user, borrowData |-> borrowData, collateral |-> collateral,
   baseToken |-> baseToken, totalBaseToBorrow |-> total, step |-> step]

\* (the guard compared with "at most one")
CallbackGuardAtMostOne(g) == g <= 1

\* **REQUIRE** inMigration == 1
CallbackGuardOk(g) == g = 1

\* require(msg.sender == address(currentBorrowData.pool))
CallbackSenderOk(sender, currentBorrowData) == sender = currentBorrowData.pool

\* uint256(x) of an int256
ToUint(x) == IF x < 0 THEN UintMax + 1 + x ELSE x

\* borrowAmountWithFee of the flash variant
FlashOwed(repayAmount, isPoolToken0, fee0, fee1) ==
  repayAmount + (IF isPoolToken0 THEN fee0 ELSE fee1)

\* (the repay amount counted with the input of the swap)
SwapOwedWithRepay(repayAmount, isPoolToken0, amount0Delta, amount1Delta) ==
  repayAmount + ToUint(IF isPoolToken0 THEN amount1Delta ELSE amount0Delta)

\* baseBorrowAmount of the swap variant
SwapOwed(repayAmount, isPoolToken0, amount0Delta, amount1Delta) ==
  ToUint(IF isPoolToken0 THEN amount1Delta ELSE amount0Delta)

\* the token the venue is paid in
FlashPayToken(p, isPoolToken0, borrowToken) == borrowToken
SwapPayToken(p, isPoolToken0, borrowToken) == IF isPoolToken0 THEN Token1(p) ELSE Token0(p)

\* (every step taken for the last)
isLastStepAlways(data) == data.step >= 0

\* (the last step taken one step early)
isLastStepEarly(data) == data.step >= Len(data.borrowData) - 2

isLastStep(data) == data.step >= Len(data.borrowData) - 1

\* (the amount of the leg added twice)
TotalCountsTwice(totalBaseToBorrow, owed) == totalBaseToBorrow + owed + owed

\* (the running total one too high)
TotalPlusOne(totalBaseToBorrow, owed) == totalBaseToBorrow + owed + 1

\* totalBorrowAmount: the running total after this leg
TotalBorrowAmount(totalBaseToBorrow, owed) == totalBaseToBorrow + owed

\* (the venue paid the running total)
PaidTotal(owed, totalBorrowAmount) == totalBorrowAmount

\* the amount of the transfer to the venue: this leg's amount, not the running total
PaidAmount(owed, totalBorrowAmount) == owed

\* (the step index given for the location)
RepayErrorLocStep(step) == step

\* the location a handler gives CompoundV2Error when repayBorrowBehalf returns an error
RepayErrorLoc(step) == 0

\* (the transfer made, the handler not returning into the pool that called it)
PayVenueStays(S, stk, step, p, payTok, owed) ==
  LET S1 == Logged(Transfer(S, payTok, "migrator", p, owed), Ev("pay", step, p, payTok, owed))
  IN [S |-> S1, stk |-> stk]

\* the last statement of a handler: the transfer to the venue, then the return into the
\* pool frame that called it (stk is the stack below the handler)
PayVenue(S, stk, step, p, payTok, owed) ==
  LET S1 == Logged(Transfer(S, payTok, "migrator", p, owed), Ev("pay", step, p, payTok, owed))
  IN [S |-> S1,
      stk |-> IF stk # << >> /\ Top(stk).fn = "pool"
                THEN [stk EXCEPT ![Len(stk)].calls = @ + 1] ELSE stk]

\* a handler from its entry to its return or to its call into the next pool
Handler(variant, sender, a0, a1, data, g, S, stk) ==
  LET bad(e) == [S |-> Fail(S, e), stk |-> stk] IN
  IF ~CallbackGuardOk(g) THEN bad(Err("Reentrancy", 1, 0))
  ELSE IF data.step + 1 > Len(data.borrowData) THEN bad(Err("Panic", 50, 0))
  ELSE
    LET currentBorrowData == data.borrowData[data.step + 1] IN
    IF ~CallbackSenderOk(sender, currentBorrowData) THEN bad(Err("Unauthorized", 0, 0))
    ELSE
      LET borrowToken == Underlying(currentBorrowData.borrowCToken)
          repayAmount == currentBorrowData.borrowAmount
          isPoolToken0 == Token0(currentBorrowData.pool) = borrowToken
          owed == IF variant = "flash"
                    THEN FlashOwed(repayAmount, isPoolToken0, a0, a1)
                    ELSE SwapOwed(repayAmount, isPoolToken0, a0, a1)
          payTok == IF variant = "flash"
                      THEN FlashPayToken(currentBorrowData.pool, isPoolToken0, borrowToken)
                      ELSE SwapPayToken(currentBorrowData.pool, isPoolToken0, borrowToken)
          totalBorrowAmount == TotalBorrowAmount(data.totalBaseToBorrow, owed)
          paid == PaidAmount(owed, totalBorrowAmount)
          err == RepayCode(S.l, currentBorrowData.borrowCToken, data.user, repayAmount)
          S0 == Logged(S, Ev("enter", data.step, sender, data.user, data.totalBaseToBorrow))
      IN
      IF owed > UintMax \/ totalBorrowAmount > UintMax THEN bad(Err("Panic", 17, 0))
      ELSE IF err # 0 THEN [S |-> Fail(S0, Err("CompoundV2Error", RepayErrorLoc(data.step), err)), stk |-> stk]
      ELSE
        LET S1 == Logged([S0 EXCEPT !.l = RepayApply(@, currentBorrowData.borrowCToken,
                                                      data.user, repayAmount)],
                         Ev("repay", data.step, data.user, currentBorrowData.borrowCToken,
                            repayAmount))
        IN
        IF isLastStep(data)
          THEN LET S2 == Logged(S1, Ev("settle", data.step, data.user, data.baseToken,
                                       totalBorrowAmount))
               IN PayVenue(migrateCollateralAndBorrow(S2, data, totalBorrowAmount), stk,
                           data.step, currentBorrowData.pool, payTok, paid)
          ELSE LET nextStep == data.step + 1
                   callbackData == MigrationCallbackData(data.user, data.borrowData,
                                     data.collateral, data.baseToken, totalBorrowAmount,
                                     nextStep)
               IN flashLoanOrSwap(S1,
                    Append(stk, Frame("callback", currentBorrowData.pool, variant, data,
                                      a0, a1, 0, 0, paid, payTok)),
                    data.borrowData, nextStep, callbackData)

\* -------------------------------------------------------------- migrate
\* (the guard compared with "at most one")
MigrateGuardAtMostOne(g) == g <= 1

\* **REQUIRE** inMigration == 0
MigrateGuardOk(g) == g = 0

\* (the guard stepped by two)
MigrateEnterTwice(g) == g + 2

\* **STORE** inMigration += 1
MigrateEnter(g) == g + 1

\* (the guard left engaged)
MigrateExitKeeps(g) == g

\* **STORE** inMigration -= 1
MigrateExit(g) == g - 1

\* (the branches of the sentinel test exchanged: the sentinel resolved to the zero
\* repayAmount is declared with)
ResolvedZero(l, bd, user) ==
  IF bd.borrowAmount = UintMax THEN 0 ELSE bd.borrowAmount

\* (every amount resolved to the whole debt, the literal ones too)
ResolvedWholeDebt(l, bd, user) == borrowBalanceCurrent(l, bd.borrowCToken, user)

\* the repay amount of one BorrowData entry, as migrate stores it back
ResolvedAmount(l, bd, user) ==
  IF bd.borrowAmount = UintMax
    THEN borrowBalanceCurrent(l, bd.borrowCToken, user)
    ELSE bd.borrowAmount

ResolveAll(l, borrowData, user) ==
  [i \in DOMAIN borrowData |->
     [borrowData[i] EXCEPT !.borrowAmount = ResolvedAmount(l, borrowData[i], user)]]

\* ------------------------------------------------------------- the actions
Cur == [l |-> ledger, ev |-> events, log |-> log, err |-> NoError]
Fresh == [Cur EXCEPT !.log = << >>]
Snapshot == [ledger |-> ledger, inMigration |-> inMigration, events |-> events]
Txn(fn, caller, collateral, borrowData) ==
  [fn |-> fn, caller |-> caller, collateral |-> collateral, borrowData |-> borrowData]

\* the state after a piece of the transaction `t` has run: R = [S, stk] are its effects
\* and the frames left, g the guard; a failure reverts the transaction to `snap`, and
\* nothing of it is left but its error
Apply(snap, t, g, R) ==
  /\ UNCHANGED uiVars
  /\ pre' = snap
  /\ lastError' = R.S.err
  /\ IF Ok(R.S)
       THEN /\ ledger' = R.S.l
            /\ events' = R.S.ev
            /\ inMigration' = g
            /\ stack' = R.stk
            /\ log' = R.S.log
            /\ txn' = t
            /\ outcome' = IF R.stk = << >> THEN "success" ELSE "running"
            /\ committed' = IF R.stk = << >> /\ t.fn = "migrate" THEN committed + 1
                                                                 ELSE committed
       ELSE /\ ledger' = snap.ledger
            /\ events' = snap.events
            /\ inMigration' = snap.inMigration
            /\ stack' = << >>
            /\ log' = << >>
            /\ txn' = Txn(t.fn, t.caller, << >>, << >>)
            /\ outcome' = "reverted"
            /\ committed' = committed

\* the model follows the contract up to the first migrate call that returns: a migration
\* that reverts leaves the state as it was, so any number of failed attempts may precede it
FirstMigration == committed = 0

\* (a plan without steps returned from at once)
MigrateBodySkipsEmpty(caller, collateral, borrowData, g, S, stk) ==
  IF ~MigrateGuardOk(g)
    THEN [S |-> Fail(S, Err("Reentrancy", 0, 0)), stk |-> stk, g |-> g]
  ELSE IF borrowData = << >>
    THEN [S |-> Logged(S, Ev("migrate", 0, caller, "none", 0)), stk |-> stk, g |-> g]
  ELSE
    LET user == caller
        resolved == ResolveAll(S.l, borrowData, user)
        step == 0
        callbackData == MigrationCallbackData(user, resolved, collateral, BaseToken, 0, step)
        S1 == Logged(S, Ev("migrate", 0, caller, "none", 0))
        R == flashLoanOrSwap(S1,
               Append(stk, Frame("migrate", "none", "none", callbackData, 0, 0, 0, 0, 0, "none")),
               resolved, step, callbackData)
    IN [S |-> R.S, stk |-> R.stk, g |-> MigrateEnter(g)]

\* migrate(collateral, borrowData, baseToken), from its entry to its call into the first
\* pool; S, stk, g are the effects, the frames and the guard at the call
MigrateBody(caller, collateral, borrowData, g, S, stk) ==
  IF ~MigrateGuardOk(g)
    THEN [S |-> Fail(S, Err("Reentrancy", 0, 0)), stk |-> stk, g |-> g]
  ELSE
    LET user == caller
        resolved == ResolveAll(S.l, borrowData, user)
        step == 0
        callbackData == MigrationCallbackData(user, resolved, collateral, BaseToken, 0, step)
        S1 == Logged(S, Ev("migrate", 0, caller, "none", 0))
        R == flashLoanOrSwap(S1,
               Append(stk, Frame("migrate", "none", "none", callbackData, 0, 0, 0, 0, 0, "none")),
               resolved, step, callbackData)
    IN [S |-> R.S, stk |-> R.stk, g |-> MigrateEnter(g)]

Migrate(caller, collateral, borrowData) ==
  /\ stack = << >>
  /\ FirstMigration
  /\ LET R == MigrateBody(caller, collateral, borrowData, inMigration, Fresh, << >>)
     IN Apply(Snapshot, Txn("migrate", caller, collateral, borrowData), R.g, R)
  /\ UNCHANGED deviations

\* the pool calls the handler back, once, with the data it was given
FlashCallback ==
  /\ stack # << >>
  /\ Top(stack).fn = "pool" /\ Top(stack).kind = "flash" /\ Top(stack).calls = 0
  /\ LET f == Top(stack)
     IN Apply(pre, txn, inMigration,
              Handler("flash", f.pool, f.a0, f.a1, f.data, inMigration, Cur, stack))
  /\ UNCHANGED deviations

SwapCallback ==
  /\ stack # << >>
  /\ Top(stack).fn = "pool" /\ Top(stack).kind = "swap" /\ Top(stack).calls = 0
  /\ LET f == Top(stack)
     IN Apply(pre, txn, inMigration,
              Handler("swap", f.pool, f.a0, f.a1, f.data, inMigration, Cur, stack))
  /\ UNCHANGED deviations

\* the balances a pool requires before it returns from flash or swap
PoolPaid(l, f) ==
  /\ l.bal[Token0(f.pool)][f.pool] >= f.req0
  /\ l.bal[Token1(f.pool)][f.pool] >= f.req1

\* the call into a pool has returned to the frame now on top of stk: that frame runs on,
\* to its own return
ReturnInto(S, stk, g) ==
  IF stk = << >> THEN [S |-> S, stk |-> stk, g |-> g]
  ELSE
    LET f == Top(stk) IN
    IF f.fn = "migrate"
      THEN IF g = 0 THEN [S |-> Fail(S, Err("Panic", 17, 0)), stk |-> stk, g |-> g]
           ELSE [S |-> Logged(S, Ev("exit", 0, f.data.user, "none", 0)),
                 stk |-> Pop(stk), g |-> MigrateExit(g)]
    ELSE IF f.fn = "callback"
      THEN LET R == PayVenue(S, Pop(stk), f.data.step, f.pool, f.payTok, f.owed)
           IN [S |-> R.S, stk |-> R.stk, g |-> g]
    ELSE [S |-> S, stk |-> stk, g |-> g]

\* the pool checks what it was paid and returns
PoolReturn ==
  /\ stack # << >>
  /\ Top(stack).fn = "pool" /\ Top(stack).calls = 1
  /\ LET f == Top(stack)
         R == IF PoolPaid(ledger, f)
                THEN ReturnInto(Cur, Pop(stack), inMigration)
                ELSE [S |-> Fail(Cur, Err("PoolRevert", 2, 0)), stk |-> stack, g |-> inMigration]
     IN Apply(pre, txn, R.g, R)
  /\ UNCHANGED deviations

\* ---------------------------------------------------------------- sweep
\* (the guard compared with "at most one")
SweepGuardAtMostOne(g) == g <= 1

\* **REQUIRE** inMigration == 0
SweepGuardOk(g) == g = 0

\* the tokens sweep may be called with; "null" is the zero address (the native balance)
SweepTokens == (Tokens \ {"ETH"}) \cup {"null"}

\* (the null token taken for the wrapped native token)
SweepBodyWrapped(token, sent, g, S) ==
  IF ~SweepGuardOk(g) THEN Fail(S, Err("Reentrancy", 2, 0))
  ELSE IF ~sent THEN Fail(S, Err("SweepFailure", IF token = "null" THEN 0 ELSE 1, 0))
  ELSE LET t == IF token = "null" THEN weth ELSE token
       IN Transfer(S, t, "migrator", sweepee, S.l.bal[t]["migrator"])

\* (the result of the send or of the transfer not looked at)
SweepSendFailureIgnored(sent) == FALSE

\* the test on the result of sweepee.send / token.transfer
SweepSendFailed(sent) == ~sent

\* sweep(token); sent is what sweepee.send / token.transfer returns (a send or a
\* transfer that returns false has moved nothing)
SweepBody(token, sent, g, S) ==
  LET moved(t) == IF sent THEN S.l.bal[t]["migrator"] ELSE 0 IN
  IF ~SweepGuardOk(g) THEN Fail(S, Err("Reentrancy", 2, 0))
  ELSE IF token = "null"
    THEN IF SweepSendFailed(sent) THEN Fail(S, Err("SweepFailure", 0, 0))
         ELSE Transfer(S, "ETH", "migrator", sweepee, moved("ETH"))
  ELSE IF SweepSendFailed(sent) THEN Fail(S, Err("SweepFailure", 1, 0))
       ELSE Transfer(S, token, "migrator", sweepee, moved(token))

Sweep(caller, token, sent) ==
  /\ stack = << >>
  /\ Apply(Snapshot, Txn("sweep", caller, << >>, << >>), inMigration,
           [S |-> SweepBody(token, sent, inMigration, Fresh), stk |-> << >>])
  /\ UNCHANGED deviations

\* ------------------------------------------- a handler called from outside
\* payloads anyone can build
StrayData ==
  {MigrationCallbackData("alice", <<b>>, << >>, BaseToken, 0, st) :
     b \in {d \in BorrowDataSet : d.borrowAmount = 1 /\ d.pool = "poolA"}, st \in 0..1}

\* either handler called as a transaction of its own, by anyone, with any payload
IdleCallback(variant, sender, a, data) ==
  /\ stack = << >>
  /\ Apply(Snapshot, Txn(variant, sender, << >>, << >>), inMigration,
           Handler(variant, sender, a, a, data, inMigration, Fresh, << >>))
  /\ UNCHANGED deviations

Plans == SeqsUpTo(BorrowDataSet, MaxSteps)
Collaterals == SeqsUpTo(CollateralSet, MaxColl)

\* the calls anyone can make while no call is in progress
Idle == stack = << >>

MigrateCall ==
  /\ Idle /\ FirstMigration
  /\ \E c \in Collaterals, b \in Plans : Migrate("alice", c, b)

SweepCall ==
  /\ Idle
  /\ \E token \in SweepTokens, sent \in BOOLEAN : Sweep("mallory", token, sent)

StrayCallback ==
  /\ Idle
  /\ \E variant \in {"flash", "swap"}, sender \in {"poolA", "mallory"}, data \in StrayData :
       IdleCallback(variant, sender, 1, data)

Next ==
  \/ MigrateCall
  \/ FlashCallback
  \/ SwapCallback
  \/ PoolReturn
  \/ SweepCall
  \/ StrayCallback

\* the pools follow the pool protocol: one callback per flash or swap, by the pool, with
\* the data it was given, and a check of what it was paid
Spec == Init /\ [][Next]_vars

\* the frame on top is a pool that has its callback to make (FlashCallback, SwapCallback)
\* or its return to make (PoolReturn)
ChainCanRun ==
  /\ stack # << >>
  /\ Top(stack).fn = "pool" /\ Top(stack).kind \in {"flash", "swap"}
  /\ Top(stack).calls \in {0, 1}

\* a step of the chain: from a state where ChainCanRun the steps of Next are FlashCallback,
\* SwapCallback and PoolReturn, and each of them changes the stack
ChainStep == ChainCanRun /\ (stack' = << >> \/ stack' # stack)

\* the same, with every call into a collaborator returning: a pool that has been asked
\* calls back, and a pool whose callback has returned checks its balances and returns
SpecLive == Init /\ [][Next]_vars /\ WF_stack(ChainStep)

\* ------------------------------------------ venues outside the pool protocol
\* borrowData[i].pool is whatever address the caller of migrate names, and both handlers
\* are external functions: while a venue holds control it can call the migrator in any
\* way, directly or through another contract.  A call of the venue that reverts and is
\* caught by the venue leaves the state as if it had not been made, so every revert is
\* taken to end the transaction.
Venue == stack # << >> /\ Top(stack).fn = "pool" /\ deviations < MaxDeviations

\* the payloads a venue can derive from the data it was given
Tamper(data, sender) ==
  {data}
    \cup {[data EXCEPT !.user = u] : u \in Users}
    \cup {[data EXCEPT !.step = st] : st \in 0..Len(data.borrowData)}
    \cup {[data EXCEPT !.totalBaseToBorrow = t] : t \in {0, 1}}
    \cup {[data EXCEPT !.borrowData[i].pool = sender] : i \in DOMAIN data.borrowData}

\* a handler called by the venue, or by a contract it calls, in some other way than the
\* pool protocol's single callback
AdvCallback(variant, sender, more, data) ==
  /\ Venue
  /\ LET f == Top(stack) IN
       /\ ~(f.calls = 0 /\ variant = f.kind /\ sender = f.pool /\ more = 0 /\ data = f.data)
       /\ Apply(pre, txn, inMigration,
                Handler(variant, sender, f.a0 + more, f.a1 + more, data, inMigration, Cur, stack))
  /\ deviations' = deviations + 1

\* migrate called from inside a venue's frame
AdvMigrate(caller, collateral, borrowData) ==
  /\ Venue
  /\ LET R == MigrateBody(caller, collateral, borrowData, inMigration, Cur, stack)
     IN Apply(pre, txn, R.g, R)
  /\ deviations' = deviations + 1

\* sweep called from inside a venue's frame
AdvSweep(token, sent) ==
  /\ Venue
  /\ Apply(pre, txn, inMigration,
           [S |-> SweepBody(token, sent, inMigration, Cur), stk |-> stack])
  /\ deviations' = deviations + 1

\* the venue returns without having called back once, or without having been paid
AdvReturn ==
  /\ Venue
  /\ ~(Top(stack).calls = 1 /\ PoolPaid(ledger, Top(stack)))
  /\ LET R == ReturnInto(Cur, Pop(stack), inMigration) IN Apply(pre, txn, R.g, R)
  /\ deviations' = deviations + 1

AdvCallbackCall ==
  /\ Venue
  /\ \E variant \in {"flash", "swap"}, sender \in {Top(stack).pool, "mallory"}, more \in 0..1,
        data \in Tamper(Top(stack).data, "mallory") :
       AdvCallback(variant, sender, more, data)

AdvMigrateCall ==
  /\ Venue
  /\ \E b \in StrayData : AdvMigrate("mallory", << >>, b.borrowData)

AdvSweepCall ==
  /\ Venue
  /\ \E token \in SweepTokens : AdvSweep(token, TRUE)

\* the plans followed against such venues: one or two steps of literal amounts, with or
\* without one collateral item
AdvBorrowData == {d \in BorrowDataSet : d.borrowAmount = 1}
AdvPlans == {<<b>> : b \in AdvBorrowData} \cup {<<b, c>> : b \in AdvBorrowData, c \in AdvBorrowData}
AdvCollaterals == {<< >>, <<[cToken |-> "cUNI", amount |-> 1]>>}

AdvMigrateTx ==
  /\ Idle /\ FirstMigration
  /\ \E c \in AdvCollaterals, b \in AdvPlans : Migrate("alice", c, b)

NextAdv ==
  \/ AdvMigrateTx
  \/ FlashCallback
  \/ SwapCallback
  \/ PoolReturn
  \/ SweepCall
  \/ StrayCallback
  \/ AdvCallbackCall
  \/ AdvMigrateCall
  \/ AdvSweepCall
  \/ AdvReturn

\* the pools are arbitrary contracts
SpecAdv == Init /\ [][NextAdv]_vars

\* ------------------------------------------- balances sent to the migrator
\* anyone can transfer tokens or native currency to the migrator between transactions;
\* one such transfer, of one unit of one token, is followed
StrayTokens == {"USDC", "UNI", "cUNI", "ETH"}

NoStray == \A t \in Tokens : ledger.bal[t]["mallory"] = InitLedger.bal[t]["mallory"]

Donate(tok) ==
  /\ stack = << >>
  /\ Apply(Snapshot, Txn("donate", "mallory", << >>, << >>), inMigration,
           [S |-> Transfer(Fresh, tok, "mallory", "migrator", 1), stk |-> << >>])
  /\ UNCHANGED deviations

DonateCall ==
  /\ Idle /\ FirstMigration /\ NoStray
  /\ \E tok \in StrayTokens : Donate(tok)

\* the plans followed with stray balances: one step, up to MaxItems collateral items
StrayPlans == {<<b>> : b \in {d \in BorrowDataSet : d.pool = "poolA"}}
StrayCollaterals == SeqsUpTo(CollateralSet, MaxItems)

StrayMigrateTx ==
  /\ Idle /\ FirstMigration
  /\ \E c \in StrayCollaterals, b \in StrayPlans : Migrate("alice", c, b)

\* sweep is followed, like migrate, up to the first migrate call that returns
StraySweepCall ==
  /\ Idle /\ FirstMigration
  /\ \E caller \in {"alice", "mallory"}, token \in SweepTokens, sent \in BOOLEAN :
       Sweep(caller, token, sent)

NextStray ==
  \/ DonateCall
  \/ StrayMigrateTx
  \/ FlashCallback
  \/ SwapCallback
  \/ PoolReturn
  \/ StraySweepCall

\* the pools follow the pool protocol; the migrator may hold a balance nobody migrated
SpecStray == Init /\ [][NextStray]_vars

\* ================================================== the page (function AaveV2Migrator)
\* bounds of the page's runs
MaxDispatches == 2
MaxPolls == 2
MaxMoves == 1

\* what a text input or a Max button can hand to the reducer
Amounts == {"", "1", "max"}
\* SwapRouteState = undefined | [Loading] | [Hydrated, SwapRoute]
SwapRoutes == {"undefined", "Loading", "Hydrated"}
\* the base asset of the target, as an aToken symbol
BaseSym == "aUSDC"

\* one unit of a collateral factor (10 ** FACTOR_PRECISION in the page)
FactorOne == 1

\* interface ATokenState, and the key `repayAmount` that the clearing case adds to it
ATokenState(chain, repayAmountStable, repayAmountVariable, transfer, swapRoute) ==
  [allowance |-> chain.allowance,
   allowanceStableDebtToken |-> chain.allowance,
   allowanceVariableDebtToken |-> chain.allowance,
   balance |-> chain.balance,
   borrowBalanceStable |-> chain.borrowBalanceStable,
   borrowBalanceVariable |-> chain.borrowBalanceVariable,
   collateralFactor |-> chain.collateralFactor,
   price |-> chain.price,
   repayAmountStable |-> repayAmountStable,
   repayAmountVariable |-> repayAmountVariable,
   transfer |-> transfer,
   swapRoute |-> swapRoute,
   repayAmount |-> "undefined"]

\* ------------------------------------------------------------------ reducer
\* (a set case that writes the field of every token)
SetFieldOfAll(aTokens, symbol, key, value) ==
  [sym \in DOMAIN aTokens |-> [aTokens[sym] EXCEPT ![key] = value]]

\* aTokenCopy.set(symbol, {...state.data.aTokens.get(symbol), [key]: value})
SetField(aTokens, symbol, key, value) ==
  [aTokens EXCEPT ![symbol] = [@ EXCEPT ![key] = value]]

\* { type: Hydrated, data: { ...state.data, error: null, aTokens: aTokenCopy } }
WithATokens(st, aTokenCopy) ==
  [type |-> "Hydrated", data |-> [st.data EXCEPT !.error = "null", !.aTokens = aTokenCopy]]

repayAmountKey(type) == IF type = "stable" THEN "repayAmountStable" ELSE "repayAmountVariable"

reducer(st, action) ==
  CASE action.type = "clear-amounts" ->
         IF st.type # "Hydrated" THEN st
         ELSE WithATokens(st, [sym \in DOMAIN st.data.aTokens |->
                [st.data.aTokens[sym] EXCEPT !.repayAmount = "", !.transfer = ""]])
    [] action.type = "set-account-state" ->
         [type |-> "Hydrated",
          data |-> [error |-> "null",
                    migratorEnabled |-> action.payload.migratorEnabled,
                    aTokens |-> action.payload.aTokens]]
    [] action.type = "set-error" ->
         [st EXCEPT !.data.error = action.payload.error]
    [] action.type = "set-repay-amount" ->
         IF st.type # "Hydrated" THEN st
         ELSE WithATokens(st, SetField(st.data.aTokens, action.payload.symbol,
                                       repayAmountKey(action.payload.type),
                                       action.payload.repayAmount))
    [] action.type = "set-swap-route" ->
         IF st.type # "Hydrated" THEN st
         ELSE WithATokens(st, SetField(st.data.aTokens, action.payload.symbol,
                                       "swapRoute", action.payload.swapRoute))
    [] action.type = "set-transfer-for-atoken" ->
         IF st.type # "Hydrated" THEN st
         ELSE WithATokens(st, SetField(st.data.aTokens, action.payload.symbol,
                                       "transfer", action.payload.transfer))

\* the actions of type Action
ClearRepayAndTransferAmounts == [type |-> "clear-amounts"]
SetAccountState(migratorEnabled, aTokens) ==
  [type |-> "set-account-state",
   payload |-> [migratorEnabled |-> migratorEnabled, aTokens |-> aTokens]]
SetError(error) == [type |-> "set-error", payload |-> [error |-> error]]
SetRepayAmount(symbol, type, repayAmount) ==
  [type |-> "set-repay-amount",
   payload |-> [symbol |-> symbol, type |-> type, repayAmount |-> repayAmount]]
SetSwapRoute(symbol, swapRoute) ==
  [type |-> "set-swap-route", payload |-> [symbol |-> symbol, swapRoute |-> swapRoute]]
SetTransferForAToken(symbol, transfer) ==
  [type |-> "set-transfer-for-atoken", payload |-> [symbol |-> symbol, transfer |-> transfer]]

\* the actions that set one field of one token
SetActions ==
  {SetRepayAmount(sym, type, a) : sym \in Syms, type \in {"stable", "variable"}, a \in Amounts}
    \cup {SetSwapRoute(sym, r) : sym \in Syms, r \in SwapRoutes}
    \cup {SetTransferForAToken(sym, a) : sym \in Syms, a \in Amounts}

\* ------------------------------------------------- the refresh of the account state
\* tokenStates: the chain's answers, and the amounts of the state the closure holds
tokenStates(closure, chain) ==
  [sym \in Syms |->
    IF closure.type = "Loading"
    THEN ATokenState(chain.tokens[sym], "", "", "", "undefined")
    ELSE LET maybeTokenState == closure.data.aTokens[sym]
         IN  ATokenState(chain.tokens[sym],
                         maybeTokenState.repayAmountStable,
                         maybeTokenState.repayAmountVariable,
                         maybeTokenState.transfer,
                         maybeTokenState.swapRoute)]

\* ------------------------------------------------------- reading the amounts typed
\* a value that may be missing (undefined, null)
Some(v) == [some |-> TRUE, v |-> v]
None == [some |-> FALSE, v |-> 0]

MAX_UINT256 == UintMax

Digits(str) == CASE str = "0" -> 0 [] str = "1" -> 1 [] str = "2" -> 2

\* maybeBigIntFromString(amount, decimals), with decimals = 0
maybeBigIntFromString(amount) ==
  IF amount \in {"0", "1", "2"} THEN Some(Digits(amount))
  ELSE IF amount = "" /\ parsesEmpty.units THEN Some(0)
  ELSE None

\* parseNumber(str, n => amountToWei(n, decimals)), with decimals = 0
parseNumber(str) ==
  IF str = "max" THEN Some(MAX_UINT256)
  ELSE IF str \in {"0", "1", "2"} THEN Some(Digits(str))
  ELSE IF str = "" /\ parsesEmpty.number THEN Some(0)
  ELSE None

\* ------------------------------------------------------- the values the page derives
\* networkConfig.aTokens, in their order
SymOrder == <<"aUSDC", "aWETH">>

\* cometData.collateralAssets.find(asset => asset.address === aToken.address)
Supported == DOMAIN cometData.collateralAssets

RECURSIVE SumOver(_, _)
SumOver(f, S) ==
  IF S = {} THEN 0 ELSE LET x == CHOOSE y \in S : TRUE IN f[x] + SumOver(f, S \ {x})

Clamped(maybe, limit) == IF ~maybe.some THEN 0 ELSE IF maybe.v > limit THEN limit ELSE maybe.v

repayAmountStableBigInt(t) ==
  Clamped(IF t.repayAmountStable = "max" THEN Some(t.borrowBalanceStable)
          ELSE maybeBigIntFromString(t.repayAmountStable), t.borrowBalanceStable)

repayAmountVariableBigInt(t) ==
  Clamped(IF t.repayAmountVariable = "max" THEN Some(t.borrowBalanceVariable)
          ELSE maybeBigIntFromString(t.repayAmountVariable), t.borrowBalanceVariable)

transferBigInt(t) ==
  Clamped(IF t.transfer = "max" THEN Some(t.balance) ELSE maybeBigIntFromString(t.transfer),
          t.balance)

aTokensWithBorrowBalances(st) ==
  {sym \in Syms : \/ st.data.aTokens[sym].borrowBalanceStable > 0
                  \/ st.data.aTokens[sym].borrowBalanceVariable > 0}

collateralWithBalances(st) ==
  {sym \in Syms : sym \in Supported /\ st.data.aTokens[sym].balance > 0}

v2BorrowValue(st) ==
  SumOver([sym \in Syms |->
    LET t == st.data.aTokens[sym]
    IN  (t.borrowBalanceStable + t.borrowBalanceVariable
           - repayAmountStableBigInt(t) - repayAmountVariableBigInt(t)) * t.price], Syms)

v2BorrowCapacity(st) ==
  SumOver([sym \in Syms |->
    LET t == st.data.aTokens[sym]
        dollarValue == (t.balance - transferBigInt(t)) * t.price
    IN  (dollarValue * t.collateralFactor) \div FactorOne], Syms)

v2ToV3MigrateBorrowValue(st) ==
  SumOver([sym \in Syms |->
    LET t == st.data.aTokens[sym]
    IN  (repayAmountStableBigInt(t) + repayAmountVariableBigInt(t)) * t.price], Syms)

existingBorrowValue ==
  (IF cometData.baseAsset.balance < 0 THEN 0 - cometData.baseAsset.balance ELSE 0)
    * cometData.baseAsset.price

v3BorrowValue(st) == existingBorrowValue + v2ToV3MigrateBorrowValue(st)

v2ToV3MigrateCollateralValue(st) ==
  SumOver([sym \in Syms |->
    LET t == st.data.aTokens[sym] IN transferBigInt(t) * t.price], Syms)

v3BorrowCapacityValue(st) ==
  SumOver([sym \in Supported |->
    LET asset == cometData.collateralAssets[sym]
        dollarValue == (asset.balance + transferBigInt(st.data.aTokens[sym])) * asset.price
    IN  (dollarValue * asset.collateralFactor) \div FactorOne], Supported)

hasMigratePosition(st) ==
  v2ToV3MigrateBorrowValue(st) > 0 \/ v2ToV3MigrateCollateralValue(st) > 0

\* ------------------------------------------------------------- validateForm
Undefined == [kind |-> "undefined"]

\* the loop over state.data.aTokens.entries(): the items so far, or the early return
RECURSIVE CollateralItems(_, _, _)
CollateralItems(st, i, collateral) ==
  IF i > Len(SymOrder) THEN [ok |-> TRUE, collateral |-> collateral]
  ELSE
    LET sym == SymOrder[i]
        t == st.data.aTokens[sym]
    IN  IF sym \notin Supported THEN CollateralItems(st, i + 1, collateral)
        ELSE
          LET collateralAsset == cometData.collateralAssets[sym]
              maybeTransfer == maybeBigIntFromString(t.transfer)
          IN  IF t.transfer = "max"
              THEN IF collateralAsset.totalSupply + t.balance > collateralAsset.supplyCap
                   THEN [ok |-> FALSE, collateral |-> << >>]
                   ELSE CollateralItems(st, i + 1,
                          Append(collateral, [aToken |-> sym, amount |-> t.balance]))
              ELSE IF maybeTransfer.some /\ maybeTransfer.v > t.balance
                   THEN [ok |-> FALSE, collateral |-> << >>]
              ELSE IF /\ maybeTransfer.some
                      /\ collateralAsset.totalSupply + maybeTransfer.v > collateralAsset.supplyCap
                   THEN [ok |-> FALSE, collateral |-> << >>]
              ELSE IF ~maybeTransfer.some
                   THEN [ok |-> FALSE, collateral |-> << >>]
              ELSE IF maybeTransfer.v > 0
                   THEN CollateralItems(st, i + 1,
                          Append(collateral, [aToken |-> sym, amount |-> maybeTransfer.v]))
                   ELSE CollateralItems(st, i + 1, collateral)

validateForm(st) ==
  IF st.type = "Loading" THEN Undefined
  ELSE IF ~st.data.migratorEnabled THEN Undefined
  ELSE
    LET aUSDC == st.data.aTokens["aUSDC"]
        borrowAmount == aUSDC.borrowBalanceStable
        repayAmount == parseNumber(aUSDC.repayAmountStable)
        items == CollateralItems(st, 1, << >>)
    IN  IF borrowAmount = 0 THEN Undefined
        ELSE IF ~repayAmount.some THEN Undefined
        ELSE IF \/ (repayAmount.v # MAX_UINT256 /\ repayAmount.v > borrowAmount)
                \/ (repayAmount.v # MAX_UINT256
                      /\ repayAmount.v > cometData.baseAsset.balanceOfComet)
                \/ (repayAmount.v = MAX_UINT256
                      /\ borrowAmount > cometData.baseAsset.balanceOfComet)
             THEN Undefined
        ELSE IF ~items.ok THEN Undefined
        ELSE IF \/ v2BorrowValue(st) > v2BorrowCapacity(st)
                \/ v3BorrowValue(st) > v3BorrowCapacityValue(st)
             THEN [kind |-> "string", error |-> "Insufficient Collateral"]
        ELSE IF ~hasMigratePosition(st) THEN Undefined
        ELSE [kind |-> "params", borrowAmount |-> repayAmount.v, collateral |-> items.collateral]

\* let migrateParams = state.data.error ?? validateForm()
migrateParams(st) ==
  IF st.data.error # "null" THEN [kind |-> "string", error |-> st.data.error]
  ELSE validateForm(st)

\* ------------------------------------------------------- the steps of the page
\* the effect starts: its closure holds the state of the render that started it
StartRefresh ==
  /\ ~refresh.inFlight
  /\ polls < MaxPolls
  /\ refresh' = [inFlight |-> TRUE, state |-> state]
  /\ polls' = polls + 1
  /\ UNCHANGED <<state, account, cometData, submitted, parsesEmpty, dispatches, moves>>
  /\ UNCHANGED contractVars

\* the answers of the chain arrive: dispatch of SetAccountState
CompleteRefresh ==
  /\ refresh.inFlight
  /\ state' = reducer(state, SetAccountState(account.migratorEnabled,
                                             tokenStates(refresh.state, account)))
  /\ refresh' = NoRefresh
  /\ UNCHANGED <<account, cometData, submitted, parsesEmpty, dispatches, polls, moves>>
  /\ UNCHANGED contractVars

\* the account's balance of the collateral token changes on the chain (a withdrawal)
ChainChange(balance) ==
  /\ moves < MaxMoves
  /\ balance # account.tokens["aWETH"].balance
  /\ account' = [account EXCEPT !.tokens["aWETH"].balance = balance]
  /\ moves' = moves + 1
  /\ UNCHANGED <<state, cometData, refresh, submitted, parsesEmpty, dispatches, polls>>
  /\ UNCHANGED contractVars

UserDispatch(next) ==
  /\ state.type = "Hydrated"
  /\ dispatches < MaxDispatches
  /\ state' = next
  /\ dispatches' = dispatches + 1
  /\ UNCHANGED <<account, cometData, refresh, submitted, parsesEmpty, polls, moves>>
  /\ UNCHANGED contractVars

\* onChange of the repay input of a token with a borrow balance
TypeRepayAmount(sym, amount) ==
  /\ state.type = "Hydrated" /\ sym \in aTokensWithBorrowBalances(state)
  /\ UserDispatch(reducer(state, SetRepayAmount(sym, "variable", amount)))

\* onClick of the Max button of the repay input
ClickRepayMax(sym) ==
  /\ state.type = "Hydrated" /\ sym \in aTokensWithBorrowBalances(state)
  /\ state.data.aTokens[sym].repayAmountVariable # "max"
  /\ LET one == reducer(state, SetRepayAmount(sym, "variable", "max"))
     IN  UserDispatch(IF sym # BaseSym THEN reducer(one, SetSwapRoute(sym, "Loading")) ELSE one)

\* onChange of the transfer input, or its Max button, of a collateral with a balance
TypeTransfer(sym, amount) ==
  /\ state.type = "Hydrated" /\ sym \in collateralWithBalances(state)
  /\ state.data.aTokens[sym].allowance # 0
  /\ amount = "max" => state.data.aTokens[sym].transfer # "max"
  /\ UserDispatch(reducer(state, SetTransferForAToken(sym, amount)))

\* async function migrate(): the call of migrator.migrate, when there are parameters
ClickMigrate ==
  /\ state.type = "Hydrated"
  /\ submitted = NothingSent
  /\ LET params == migrateParams(state)
     IN  submitted' = IF params.kind = "params"
                      THEN [kind |-> "migrate", collateral |-> params.collateral,
                            borrowAmount |-> params.borrowAmount]
                      ELSE NothingSent
  /\ UNCHANGED <<state, account, cometData, refresh, parsesEmpty, dispatches, polls, moves>>
  /\ UNCHANGED contractVars

\* the transaction is confirmed: dispatch of ClearRepayAndTransferAmounts
TrxConfirmed ==
  /\ submitted # NothingSent
  /\ state' = reducer(state, ClearRepayAndTransferAmounts)
  /\ submitted' = NothingSent
  /\ UNCHANGED <<account, cometData, refresh, parsesEmpty, dispatches, polls, moves>>
  /\ UNCHANGED contractVars

\* the call throws UNPREDICTABLE_GAS_LIMIT: dispatch of SetError
TrxRejected ==
  /\ submitted # NothingSent
  /\ state' = reducer(state, SetError("Migration will fail if sent"))
  /\ submitted' = NothingSent
  /\ UNCHANGED <<account, cometData, refresh, parsesEmpty, dispatches, polls, moves>>
  /\ UNCHANGED contractVars

InitUI ==
  /\ ContractInit
  /\ \E enabled \in BOOLEAN, units \in BOOLEAN, number \in BOOLEAN :
       PageInit(enabled, 2, 2, units, number)

NextUI ==
  \/ StartRefresh
  \/ CompleteRefresh
  \/ \E balance \in {0} : ChainChange(balance)
  \/ \E sym \in Syms, amount \in Amounts : TypeRepayAmount(sym, amount)
  \/ \E sym \in Syms : ClickRepayMax(sym)
  \/ \E sym \in Syms, amount \in Amounts : TypeTransfer(sym, amount)
  \/ ClickMigrate
  \/ TrxConfirmed
  \/ TrxRejected

SpecUI == InitUI /\ [][NextUI]_vars

\* =================================================================== claims
RECURSIVE SumRepaid(_, _, _, _, _)
\* what the steps i.. of borrowData repay in market m, as migrate resolves them against l
SumRepaid(l, borrowData, user, m, i) ==
  IF i > Len(borrowData) THEN 0
  ELSE (IF borrowData[i].borrowCToken = m THEN ResolvedAmount(l, borrowData[i], user) ELSE 0)
         + SumRepaid(l, borrowData, user, m, i + 1)

RECURSIVE SumPulled(_, _, _, _)
\* what the items i.. of collateral pull of cToken c from a user who holds `have` of it
SumPulled(collateral, c, have, i) ==
  IF i > Len(collateral) THEN 0
  ELSE LET a == IF collateral[i].cToken # c THEN 0
                ELSE IF collateral[i].amount = UintMax THEN have
                ELSE collateral[i].amount
       IN a + SumPulled(collateral, c, have - a, i + 1)

MigrateEnded == stack = << >> /\ txn.fn = "migrate"

\* every step and every collateral item of the plan has been applied, once
AllApplied ==
  LET user == txn.caller IN
  /\ \A m \in Markets :
       ledger.debt[user][m] = pre.ledger.debt[user][m]
                                - SumRepaid(pre.ledger, txn.borrowData, user, m, 1)
  /\ \A c \in CollTokens :
       ledger.bal[c][user] = pre.ledger.bal[c][user]
                               - SumPulled(txn.collateral, c, pre.ledger.bal[c][user], 1)
  /\ Len(events) = Len(pre.events) + 1
  /\ ledger.borrowed[user] = pre.ledger.borrowed[user] + events[Len(events)].borrowAmountWithFee

\* C1: a call to migrate ends either with every debt reduced by its resolved amount, every
\* collateral item moved and the target position reflecting the borrow, or with every
\* balance equal to its value before the call
C1_Atomicity ==
  MigrateEnded =>
    \/ outcome = "reverted" /\ ledger = pre.ledger
    \/ outcome = "success" /\ AllApplied

\* C2: whenever no call is in progress, so before and after every migrate, callback and
\* sweep call, whether it succeeded or failed, the guard is idle
C2_GuardIdleBetweenCalls == (stack = << >>) => inMigration = 0

C2_Witness ==
  /\ MigrateEnded /\ outcome = "success" /\ Len(txn.borrowData) = 2 /\ inMigration = 0

MigrateInProgress == \E i \in 1..Len(stack) : stack[i].fn = "migrate"

\* C3: the guard is 0 or 1 in every state, at every nesting depth, and it is 0 when no
\* migrate call is in progress
C3_GuardBinary ==
  /\ inMigration \in {0, 1}
  /\ ~MigrateInProgress => inMigration = 0

C3_Witness == Len(stack) >= 4 /\ inMigration = 1

\* C4: while the guard is engaged, a migrate call by any account with any plan fails with
\* Reentrancy(0) before it changes a balance, the guard or the frames, and no two migrate
\* calls are ever in progress together
C4_Serialization ==
  /\ Cardinality({i \in 1..Len(stack) : stack[i].fn = "migrate"}) <= 1
  /\ inMigration # 0 =>
       \A caller \in Callers, c \in AdvCollaterals, b \in AdvPlans :
         LET R == MigrateBody(caller, c, b, inMigration, Cur, stack) IN
           /\ R.S.err = Err("Reentrancy", 0, 0)
           /\ R.S.l = ledger /\ R.S.ev = events /\ R.g = inMigration /\ R.stk = stack

\* a migrate call made from inside a venue's frame has failed
C4_Witness == outcome = "reverted" /\ lastError = Err("Reentrancy", 0, 0) /\ deviations = 1

\* C5: a handler called, during a migration, by anyone but the pool the migrator called for
\* the step in progress, with any payload, fails, and the enclosing migrate fails with it
\* (the claim also names the error, UnauthorizedCallback)
C5_CallbackAuthorization ==
  [][Venue =>
       \A variant \in {"flash", "swap"}, more \in 0..1, data \in Tamper(Top(stack).data, "mallory") :
         AdvCallback(variant, "mallory", more, data) => outcome' = "reverted"]_vars

\* C6: a handler called while the guard is idle fails with Reentrancy(1) and has done
\* nothing: no balance, event, guard or frame has changed
C6_IdleCallbackRejected ==
  [][(Idle /\ inMigration = 0 /\ txn'.fn \in {"flash", "swap"})
       => /\ outcome' = "reverted" /\ lastError' = Err("Reentrancy", 1, 0)
          /\ ledger' = ledger /\ events' = events /\ inMigration' = 0 /\ stack' = << >>]_vars

C6_Witness ==
  outcome = "reverted" /\ lastError = Err("Reentrancy", 1, 0) /\ txn.fn \in {"flash", "swap"}

\* ------------------------------------------------- the legs of a migration
Succeeded == MigrateEnded /\ outcome = "success"

\* the plan of the migration in progress, with the amounts migrate resolved at its entry
Resolved == ResolveAll(pre.ledger, txn.borrowData, txn.caller)

\* the fee the venue of a leg quotes for it
QuotedFee(bd) == IF bd.isFlashLoan THEN FlashFee(bd.pool, bd.borrowAmount) ELSE PoolFee(bd.pool)

\* what a leg adds to the running total and pays to its venue
LegAmount(bd) ==
  IF bd.isFlashLoan THEN bd.borrowAmount + FlashFee(bd.pool, bd.borrowAmount)
  ELSE SwapIn(bd.pool, bd.borrowAmount)

\* the token a leg's venue is paid in: the borrowed token of a loan, the other token of the
\* pool of a swap
LegPayToken(bd) ==
  IF bd.isFlashLoan THEN Underlying(bd.borrowCToken)
  ELSE IF Token0(bd.pool) = Underlying(bd.borrowCToken) THEN Token1(bd.pool)
  ELSE Token0(bd.pool)

RECURSIVE SumRepayPlusFee(_, _)
SumRepayPlusFee(borrowData, i) ==
  IF i > Len(borrowData) THEN 0
  ELSE borrowData[i].borrowAmount + QuotedFee(borrowData[i]) + SumRepayPlusFee(borrowData, i + 1)

RECURSIVE SumLegs(_, _)
SumLegs(borrowData, i) ==
  IF i > Len(borrowData) THEN 0
  ELSE LegAmount(borrowData[i]) + SumLegs(borrowData, i + 1)

Entries(kind) == {i \in DOMAIN log : log[i].e = kind}
HasSwapLeg == \E i \in DOMAIN txn.borrowData : ~txn.borrowData[i].isFlashLoan
HasLoanLeg == \E i \in DOMAIN txn.borrowData : txn.borrowData[i].isFlashLoan

C8_BorrowOnceAfterCollateral ==
  Succeeded =>
    /\ Cardinality(Entries("borrow")) = 1
    /\ \A i \in Entries("borrow") :
         /\ log[i].who = txn.caller /\ log[i].tok = BaseToken
         /\ \A j \in Entries("settle") : log[i].amt = log[j].amt
         /\ Cardinality({j \in Entries("pull") : j < i}) = Len(txn.collateral)
         /\ \A j \in Entries("pull") \cup Entries("supply") : j < i
         /\ ledger.borrowed[txn.caller] = pre.ledger.borrowed[txn.caller] + log[i].amt
         /\ ledger.bal[BaseToken][comet] = pre.ledger.bal[BaseToken][comet] - log[i].amt

C8_Witness == Succeeded /\ Len(txn.collateral) = MaxColl /\ Entries("borrow") # {}

IsStepEntry(x) == x.e \in {"flash", "swap", "enter", "repay"}
StepEntries == SelectSeq(log, IsStepEntry)

\* C10: liquidity is acquired, the handler entered and the debt repaid for step 0, then for
\* step 1, and so on: no step is skipped, repeated or begun before the one before it has
\* repaid, and a successful migration has gone through every step of the plan
C10_StepOrder ==
  /\ \A j \in DOMAIN StepEntries :
       LET k == (j - 1) \div 3
           x == StepEntries[j]
       IN /\ x.step = k
          /\ k < Len(txn.borrowData)
          /\ (j - 1) % 3 = 0 =>
               /\ x.e = (IF txn.borrowData[k + 1].isFlashLoan THEN "flash" ELSE "swap")
               /\ x.who = txn.borrowData[k + 1].pool
          /\ (j - 1) % 3 = 1 => x.e = "enter"
          /\ (j - 1) % 3 = 2 => x.e = "repay"
  /\ Succeeded => Len(StepEntries) = 3 * Len(txn.borrowData)

C10_Witness == Succeeded /\ Len(txn.borrowData) = MaxSteps /\ Len(StepEntries) = 3 * MaxSteps

\* ------------------------------------------------------ order of the unwind
IsPay(x) == x.e = "pay"
PayEntries == SelectSeq(log, IsPay)

\* C11: the venues are repaid in the reverse order of acquisition: the first transfer to a
\* venue is for the last step of the plan, the next for the step before it, down to step 0;
\* none is made before the borrow from the target; a successful migration has repaid the
\* venue of every step
C11_UnwindOrder ==
  /\ \A j \in DOMAIN PayEntries :
       /\ PayEntries[j].step = Len(txn.borrowData) - j
       /\ PayEntries[j].who = txn.borrowData[PayEntries[j].step + 1].pool
  /\ \A i \in Entries("pay") : \E b \in Entries("borrow") : b < i
  /\ Succeeded => Len(PayEntries) = Len(txn.borrowData)

C11_Witness ==
  /\ Succeeded /\ Len(txn.borrowData) = MaxSteps
  /\ Len(PayEntries) = MaxSteps /\ PayEntries[1].step = MaxSteps - 1
  /\ PayEntries[MaxSteps].step = 0

\* ------------------------------------------------- resolution of the sentinel
IsAcquisition(x) == x.e \in {"flash", "swap"}
IsSentinel(k) == txn.borrowData[k + 1].borrowAmount = UintMax
StepMarket(k) == txn.borrowData[k + 1].borrowCToken

\* what the user's debt in a market was when entry i of the log was made
RECURSIVE RepaidBefore(_, _, _)
RepaidBefore(i, m, j) ==
  IF j >= i THEN 0
  ELSE (IF log[j].e = "repay" /\ log[j].tok = m /\ log[j].who = txn.caller
          THEN log[j].amt ELSE 0) + RepaidBefore(i, m, j + 1)

LiveDebtAt(i, m) == pre.ledger.debt[txn.caller][m] - RepaidBefore(i, m, 1)

\* the user's debt in the market of step k when migrate was entered
EntryAmount(k) ==
  IF IsSentinel(k) THEN pre.ledger.debt[txn.caller][StepMarket(k)]
  ELSE txn.borrowData[k + 1].borrowAmount

\* C12, as claimed: the amount of a step whose requested amount is the sentinel is the
\* user's debt in the step's market at the moment the step executes, after the repayments
\* of the earlier steps
C12_ResolvedAtStep ==
  \A i \in DOMAIN log :
    (IsAcquisition(log[i]) /\ IsSentinel(log[i].step))
      => log[i].amt = LiveDebtAt(i, StepMarket(log[i].step))

\* C12, amended: the amount of a step whose requested amount is the sentinel is the user's
\* debt in the step's market as it was when migrate was entered; the liquidity requested
\* and the debt repaid at the step are that amount, whatever earlier steps have repaid
C12_ResolvedAtEntry ==
  \A i \in DOMAIN log :
    (log[i].e \in {"flash", "swap", "repay"} /\ IsSentinel(log[i].step))
      => log[i].amt = EntryAmount(log[i].step)

\* step 1 is under way with the sentinel, after step 0 repaid part of the same debt
C12_Witness ==
  /\ Len(txn.borrowData) = 2 /\ StepMarket(0) = StepMarket(1) /\ IsSentinel(1)
  /\ \E i \in DOMAIN log :
       /\ IsAcquisition(log[i]) /\ log[i].step = 1
       /\ log[i].amt # LiveDebtAt(i, StepMarket(1))

\* --------------------------------------------------------- collateral items
IsPull(x) == x.e = "pull"
PullEntries == SelectSeq(log, IsPull)

\* what the user held of a collateral token when the j-th item was pulled
RECURSIVE PulledBefore(_, _, _)
PulledBefore(j, c, i) ==
  IF i >= j THEN 0
  ELSE (IF PullEntries[i].tok = c THEN PullEntries[i].amt ELSE 0) + PulledBefore(j, c, i + 1)

LiveBalanceAt(j, c) == pre.ledger.bal[c][txn.caller] - PulledBefore(j, c, 1)

\* C13: the j-th transfer from the user is of the j-th item's token, and of its amount when
\* that is a literal, of what the user holds of the token at that moment when it is the
\* sentinel: the balance at the start less what earlier items of the plan have pulled
C13_CollateralResolution ==
  /\ Len(PullEntries) <= Len(txn.collateral)
  /\ \A j \in DOMAIN PullEntries :
       LET item == txn.collateral[j] IN
         /\ PullEntries[j].tok = item.cToken /\ PullEntries[j].who = txn.caller
         /\ PullEntries[j].step = j - 1
         /\ PullEntries[j].amt = (IF item.amount = UintMax
                                    THEN LiveBalanceAt(j, item.cToken) ELSE item.amount)
  /\ Succeeded => Len(PullEntries) = Len(txn.collateral)

\* a sentinel item that follows a literal item of the same token
C13_Witness ==
  /\ Succeeded /\ Len(txn.collateral) = 2
  /\ txn.collateral[1].cToken = txn.collateral[2].cToken
  /\ txn.collateral[1].amount = 1 /\ txn.collateral[2].amount = UintMax
  /\ PullEntries[2].amt = pre.ledger.bal[txn.collateral[2].cToken][txn.caller] - 1
  /\ PullEntries[2].amt > 0

\* ------------------------------------------------------- entries of a handler
EntriesOfStep(k) == {i \in Entries("enter") : log[i].step = k}

\* C14: whatever the venues do, a handler is entered at most once for each step of the
\* plan: a second entry for a step, during the migration, is rejected (the claim adds
\* that a successful migration has entered it exactly once for every step)
C14_EnteredOncePerStep ==
  \A k \in 0..MaxSteps : Cardinality(EntriesOfStep(k)) <= 1

\* ------------------------------------------------------- the account acted on
\* C15: whatever the venues do, every repayment, collateral transfer, deposit and borrow of
\* a migration is made for the account that called migrate, and every handler is entered
\* with that account in its context
C15_ActsOnCaller ==
  txn.fn = "migrate" =>
    /\ \A i \in DOMAIN log :
         log[i].e \in {"repay", "pull", "supply", "borrow", "settle"} => log[i].who = txn.caller
    /\ \A i \in Entries("enter") : log[i].tok = txn.caller
    /\ \A u \in Users \ {txn.caller} :
         /\ ledger.debt[u] = pre.ledger.debt[u]
         /\ ledger.borrowed[u] = pre.ledger.borrowed[u]
         /\ ledger.supplied[u] = pre.ledger.supplied[u]
         /\ \A c \in CollTokens : ledger.bal[c][u] = pre.ledger.bal[c][u]

\* -------------------------------------------------------------------- sweep
\* C16: while the guard is engaged, sweep of any token, the null token of the native
\* balance included, fails with Reentrancy(2) and moves nothing
C16_SweepIdleOnly ==
  inMigration # 0 =>
    \A token \in SweepTokens, sent \in BOOLEAN :
      LET S == SweepBody(token, sent, inMigration, Cur) IN
        S.err = Err("Reentrancy", 2, 0) /\ S.l = ledger /\ S.ev = events

\* a venue has called sweep during a migration
C16_Witness ==
  /\ outcome = "reverted" /\ lastError = Err("Reentrancy", 2, 0)
  /\ txn.fn = "migrate" /\ deviations = 1

\* the token whose balance sweep(token) moves
SweptToken(token) == IF token = "null" THEN "ETH" ELSE token

\* C17: while the guard is idle, sweep by any caller moves the migrator's whole balance of
\* the named token (its native balance for the null token) to the sweepee and changes no
\* other balance; the migrator then holds none of it, and the guard is still idle
C17_SweepTransfersAll ==
  [][(Idle /\ inMigration = 0) =>
       \A caller \in {"alice", "mallory"}, token \in SweepTokens :
         Sweep(caller, token, TRUE) =>
           LET t == SweptToken(token)
               b == ledger.bal[t]["migrator"]
           IN /\ outcome' = "success"
              /\ ledger' = [ledger EXCEPT !.bal[t]["migrator"] = 0,
                                          !.bal[t][sweepee] = @ + b]
              /\ ledger'.bal[t]["migrator"] = 0
              /\ inMigration' = 0 /\ events' = events]_vars

\* a sweep has moved a balance the migrator held
C17_Witness ==
  /\ outcome = "success" /\ txn.fn = "sweep" /\ inMigration = 0
  /\ \E t \in Tokens :
       /\ pre.ledger.bal[t]["migrator"] > 0 /\ ledger.bal[t]["migrator"] = 0
       /\ ledger.bal[t][sweepee] = pre.ledger.bal[t][sweepee] + pre.ledger.bal[t]["migrator"]

\* ------------------------------------------------------------ debts repaid
\* what the steps k.. of the plan repay in market m, at the amounts of migrate's entry
RECURSIVE EntryRepaid(_, _)
EntryRepaid(m, k) ==
  IF k >= Len(txn.borrowData) THEN 0
  ELSE (IF StepMarket(k) = m THEN EntryAmount(k) ELSE 0) + EntryRepaid(m, k + 1)

RepaysOfStep(k) == {i \in Entries("repay") : log[i].step = k}

\* C18: in a successful migration the user's debt in each source market is lower by what
\* the steps on that market resolved to, each step having made one repayment of its amount
\* for the user out of the liquidity acquired for it; the debt in the market of a step whose
\* amount was the sentinel is 0
C18_DebtsRepaid ==
  Succeeded =>
    /\ \A m \in Markets :
         /\ ledger.debt[txn.caller][m] = pre.ledger.debt[txn.caller][m] - EntryRepaid(m, 0)
         /\ ledger.bal[Underlying(m)][m] = pre.ledger.bal[Underlying(m)][m] + EntryRepaid(m, 0)
    /\ \A k \in 0..(Len(txn.borrowData) - 1) :
         /\ Cardinality(RepaysOfStep(k)) = 1
         /\ \A i \in RepaysOfStep(k) :
              /\ log[i].who = txn.caller /\ log[i].tok = StepMarket(k)
              /\ log[i].amt = EntryAmount(k)
              /\ \E j \in 1..(i - 1) :
                   /\ IsAcquisition(log[j]) /\ log[j].step = k
                   /\ log[j].tok = Underlying(StepMarket(k)) /\ log[j].amt = log[i].amt
         /\ IsSentinel(k) => ledger.debt[txn.caller][StepMarket(k)] = 0

C18_Witness ==
  /\ Succeeded /\ Len(txn.borrowData) = 2
  /\ IsSentinel(0) /\ ~IsSentinel(1) /\ StepMarket(0) # StepMarket(1)
  /\ ledger.debt[txn.caller][StepMarket(0)] = 0
  /\ ledger.debt[txn.caller][StepMarket(1)] = pre.ledger.debt[txn.caller][StepMarket(1)] - 1

\* ------------------------------------------------------ deposits and leftovers
IsSupply(x) == x.e = "supply"
SupplyEntries == SelectSeq(log, IsSupply)

\* C19: in a successful migration the deposit made for each collateral item is of the
\* underlying redeemed from that item's amount and nothing more (one unit of underlying per
\* unit of collateral token), whatever the migrator held before the call
C19_DepositsItemOnly ==
  Succeeded =>
    /\ Len(SupplyEntries) = Len(PullEntries)
    /\ \A j \in DOMAIN SupplyEntries :
         /\ SupplyEntries[j].who = txn.caller
         /\ SupplyEntries[j].tok = SuppliedAsset(PullEntries[j].tok)
         /\ SupplyEntries[j].amt = PullEntries[j].amt

MigratorHolds(l, t) == l.bal[t]["migrator"]

\* C20: a successful migration that the migrator entered holding nothing leaves it holding
\* nothing: no underlying of a source market, no collateral token, no base asset, no
\* native or wrapped native balance
C20_NothingRetained ==
  (Succeeded /\ \A t \in Tokens : MigratorHolds(pre.ledger, t) = 0)
    => \A t \in Tokens : MigratorHolds(ledger, t) = 0

\* both kinds of leg and a collateral item have gone through the migrator
C20_Witness ==
  /\ Succeeded /\ \A t \in Tokens : MigratorHolds(pre.ledger, t) = 0
  /\ HasSwapLeg /\ HasLoanLeg /\ Len(PullEntries) = 1 /\ PullEntries[1].amt > 0
  /\ \A t \in Tokens : MigratorHolds(ledger, t) = 0

\* ------------------------------------------------------ a repayment rejected
\* a pool is about to call the handler back
PendingCallback == stack # << >> /\ Top(stack).fn = "pool" /\ Top(stack).calls = 0

\* the code repayBorrowBehalf will return to that handler
PendingRepayCode ==
  LET d == Top(stack).data
      bd == d.borrowData[d.step + 1]
  IN RepayCode(ledger, bd.borrowCToken, d.user, bd.borrowAmount)

RepayRejected(loc) ==
  /\ outcome' = "reverted"
  /\ lastError' = Err("CompoundV2Error", loc, PendingRepayCode)
  /\ ledger' = pre.ledger /\ events' = pre.events /\ inMigration' = pre.inMigration
  /\ stack' = << >>

\* C21, as claimed: when the source market returns an error code for the repayment of
\* step k, the migration fails with the error carrying k and the code, and nothing of the
\* transaction persists
C21_RepayErrorCarriesStep ==
  [][(PendingCallback /\ PendingRepayCode # 0 /\ (FlashCallback \/ SwapCallback))
       => RepayRejected(Top(stack).data.step)]_vars

\* C21, amended: when the source market returns an error code for the repayment of step k,
\* the migration fails with CompoundV2Error carrying location 0, whatever k is, and the
\* code, and nothing of the transaction persists
C21_RepayErrorAtLocationZero ==
  [][(PendingCallback /\ PendingRepayCode # 0 /\ (FlashCallback \/ SwapCallback))
       => RepayRejected(0)]_vars

\* the repayment of step 1 is about to be rejected
C21_Witness ==
  PendingCallback /\ Top(stack).data.step = 1 /\ PendingRepayCode # 0 /\ txn.fn = "migrate"

\* ------------------------------------------------- a collateral transfer that fails
\* what the user holds of the cToken of item j (1-based) when its turn comes, and what
\* the item asks of it, from the ledger l the handler starts with
RECURSIVE UserHolds(_, _, _), AskedOf(_, _, _)
UserHolds(l, d, j) ==
  LET c == d.collateral[j].cToken
      Earlier == {i \in 1..(j - 1) : d.collateral[i].cToken = c}
      RECURSIVE Sum(_)
      Sum(I) == IF I = {} THEN 0
                ELSE LET i == CHOOSE x \in I : TRUE IN AskedOf(l, d, i) + Sum(I \ {i})
  IN l.bal[c][d.user] - Sum(Earlier)

AskedOf(l, d, j) ==
  IF d.collateral[j].amount = UintMax THEN UserHolds(l, d, j) ELSE d.collateral[j].amount

ShortItems(l, d) == {j \in 1..Len(d.collateral) : AskedOf(l, d, j) > UserHolds(l, d, j)}

FirstShort(l, d) == CHOOSE j \in ShortItems(l, d) : \A i \in ShortItems(l, d) : j <= i

\* the handler the pending pool is about to call, run on the present state
PendingHandler ==
  LET f == Top(stack)
  IN Handler(f.kind, f.pool, f.a0, f.a1, f.data, inMigration, Cur, stack)

\* the pending handler settles, and the user is short of some collateral item
PendingTransferFailure ==
  /\ PendingCallback /\ PendingRepayCode = 0
  /\ isLastStep(Top(stack).data)
  /\ ShortItems(ledger, Top(stack).data) # {}

\* C22: when the transfer of a collateral item from the user reports failure, the
\* migration fails with CTokenTransferFailure; the items before it were pulled and no
\* other, no borrow from the target was made, and nothing of the transaction persists,
\* the debt repayments included
C22_CollateralTransferFailure ==
  [][(PendingTransferFailure /\ (FlashCallback \/ SwapCallback))
       => /\ outcome' = "reverted"
          /\ lastError' = Err("CTokenTransferFailure", 0, 0)
          /\ LET done == PendingHandler.S.log
                 j == FirstShort(ledger, Top(stack).data)
             IN /\ \A n \in 1..Len(done) : done[n].e # "borrow"
                /\ {done[n].step : n \in {m \in 1..Len(done) : done[m].e = "pull"}}
                     = 0..(j - 2)
                /\ \E n \in 1..Len(done) : done[n].e = "repay"
          /\ ledger' = pre.ledger /\ events' = pre.events
          /\ inMigration' = pre.inMigration /\ stack' = << >>]_vars

\* the second collateral item is about to fail: the first has taken all the user holds
C22_Witness ==
  /\ PendingTransferFailure
  /\ FirstShort(ledger, Top(stack).data) = 2
  /\ txn.fn = "migrate"

\* --------------------------------------------------- the accepted collateral tokens
\* C23: a migrate whose plan holds a collateral item whose cToken is not in
\* collateralTokens never ends in success with the user's balance of that cToken changed
\* (the claim says more: that it never ends in success)
C23_CollateralAccepted ==
  Succeeded =>
    \A j \in 1..Len(txn.collateral) :
      LET c == txn.collateral[j].cToken
      IN c \notin collateralTokens => ledger.bal[c][txn.caller] = pre.ledger.bal[c][txn.caller]

\* ------------------------------------------------------- collateral items of amount 0
\* the context d with its collateral items of amount 0 left out
WithoutZeroItems(d) ==
  [d EXCEPT !.collateral = SelectSeq(@, LAMBDA c : c.amount # 0)]

HasZeroItem(d) == \E j \in 1..Len(d.collateral) : d.collateral[j].amount = 0

\* C24: a collateral item of amount 0 is ignored: the settling handler leaves every
\* balance as it leaves them for the same plan without that item
C24_ZeroItemsIgnored ==
  (PendingCallback /\ isLastStep(Top(stack).data) /\ HasZeroItem(Top(stack).data)) =>
    LET f == Top(stack)
        with == PendingHandler
        without == Handler(f.kind, f.pool, f.a0, f.a1, WithoutZeroItems(f.data),
                           inMigration, Cur, stack)
    IN /\ Ok(with.S) = Ok(without.S)
       /\ Ok(with.S) => with.S.l = without.S.l

\* ------------------------------------------------------------ the Migrated event
\* C25: a migration that succeeds has emitted Migrated once, after the borrow from the
\* target, with the caller, the collateral items of the plan and the total handed to
\* settlement; a migration that fails has emitted nothing; the emission leaves the
\* balances and the guard as the borrow left them
C25_MigratedOnce ==
  /\ (MigrateEnded /\ outcome = "reverted") => events = pre.events
  /\ (txn.fn = "migrate" /\ outcome \in {"running", "success"}) =>
       /\ Cardinality(Entries("emit")) <= 1
       /\ Len(events) = Len(pre.events) + Cardinality(Entries("emit"))
       /\ \A i \in Entries("emit") :
            /\ \E b \in Entries("borrow") : b < i
            /\ \A b \in Entries("borrow") \cup Entries("supply") \cup Entries("pull") : b < i
            /\ \E j \in Entries("settle") :
                 events[Len(events)] =
                   [user |-> txn.caller, collateral |-> txn.collateral,
                    repayAmount |-> 0, borrowAmountWithFee |-> log[j].amt]
  /\ Succeeded => Cardinality(Entries("emit")) = 1

\* a migration with a collateral item and a positive total has succeeded
C25_Witness ==
  /\ Succeeded /\ txn.collateral # << >>
  /\ events # pre.events
  /\ events[Len(events)].borrowAmountWithFee > 0

\* ------------------------------------------------------ the context along the chain
\* the contexts given to the pools of the chain, outermost first
PoolContexts ==
  LET frames == SelectSeq(stack, LAMBDA f : f.fn = "pool")
  IN [i \in 1..Len(frames) |-> frames[i].data]

\* the handler entries of the migration, in the order of the log
EnterEntries == SelectSeq(log, LAMBDA x : x.e = "enter")

\* C26: along the chain of one migration the step of the context starts at 0, grows by 1
\* from one handler entry to the next and stays below the length of the plan; the total
\* of the context starts at 0 and never decreases from one entry to the next
C26_ContextInvariants ==
  (txn.fn = "migrate" /\ outcome \in {"running", "success"}) =>
    /\ \A i \in DOMAIN PoolContexts :
         /\ PoolContexts[i].step = i - 1
         /\ PoolContexts[i].step < Len(txn.borrowData)
         /\ i = 1 => PoolContexts[i].totalBaseToBorrow = 0
         /\ i > 1 => PoolContexts[i].totalBaseToBorrow >= PoolContexts[i - 1].totalBaseToBorrow
    /\ \A j \in DOMAIN EnterEntries :
         /\ EnterEntries[j].step = j - 1
         /\ EnterEntries[j].step < Len(txn.borrowData)
         /\ j = 1 => EnterEntries[j].amt = 0
         /\ j > 1 => EnterEntries[j].amt >= EnterEntries[j - 1].amt
    /\ Succeeded => Len(EnterEntries) = Len(txn.borrowData)

\* a migration of two steps has succeeded, its second handler entered with a total above 0
C26_Witness ==
  /\ Succeeded /\ Len(txn.borrowData) = 2
  /\ Len(EnterEntries) = 2 /\ EnterEntries[2].amt > 0

\* ------------------------------------------------------------ settlement, once
\* C27: settlement runs at most once, in the handler of the last step (after that
\* handler's entry and its repayment, before its transfer to the venue), never in the
\* handler of another step; a migration that succeeds has run it exactly once
C27_SettlesOnceAtLastStep ==
  (txn.fn = "migrate" /\ outcome \in {"running", "success"}) =>
    LET last == Len(txn.borrowData) - 1 IN
    /\ Cardinality(Entries("settle")) <= 1
    /\ \A i \in Entries("settle") :
         /\ log[i].step = last
         /\ \E e \in Entries("enter") : log[e].step = last /\ e < i
         /\ \E r \in Entries("repay") : log[r].step = last /\ r < i
         /\ \A r \in Entries("repay") : r < i
         /\ \A q \in Entries("pay") : i < q
         /\ \A b \in Entries("borrow") \cup Entries("pull") \cup Entries("supply") : i < b
    /\ Entries("borrow") # {} => Entries("settle") # {}
    /\ Succeeded => Cardinality(Entries("settle")) = 1

\* a migration of two steps has succeeded: its settlement ran at step 1
C27_Witness ==
  /\ Succeeded /\ Len(txn.borrowData) = 2
  /\ \E i \in Entries("settle") : log[i].step = 1
  /\ \E r \in Entries("repay") : log[r].step = 0

\* ------------------------------------------------ the order of effects in a handler
\* the places in the log of the entries of kind e of step k
At(e, k) == {i \in DOMAIN log : log[i].e = e /\ log[i].step = k}
AcquiredAt(k) == At("flash", k) \cup At("swap", k)

\* C28: in the handler of every step k the effects come in one order: the entry, with the
\* caller being the venue of step k; the repayment of the debt of step k; then at once the
\* request of the liquidity of step k + 1 when k is not the last step, the settlement when
\* it is; last the transfer to the venue of step k. No venue is paid before the borrow
\* from the target, and no liquidity of step k + 1 is requested before the debt of step k
\* is repaid
C28_HandlerOrder ==
  (txn.fn = "migrate" /\ outcome \in {"running", "success"}) =>
    LET n == Len(txn.borrowData) IN
    /\ \A k \in 0..(n - 1) :
         /\ \A e \in At("enter", k) : log[e].who = txn.borrowData[k + 1].pool
         /\ \A r \in At("repay", k) :
              /\ \E e \in At("enter", k) : e + 1 = r
              /\ r + 1 \in DOMAIN log
              /\ IF k < n - 1 THEN r + 1 \in AcquiredAt(k + 1)
                              ELSE r + 1 \in At("settle", k)
         /\ \A a \in AcquiredAt(k + 1) : \E r \in At("repay", k) : r < a
         /\ \A q \in At("pay", k) :
              /\ log[q].who = txn.borrowData[k + 1].pool
              /\ \E r \in At("repay", k) : r < q
              /\ \E b \in Entries("borrow") : b < q
              /\ k < n - 1 => \E a \in AcquiredAt(k + 1) : a < q
              /\ \A i \in At("enter", k) \cup At("repay", k) \cup At("settle", k) : i < q
    /\ Succeeded => \A k \in 0..(n - 1) : At("pay", k) # {}

\* a migration of two steps has succeeded, every handler having paid its venue
C28_Witness ==
  /\ Succeeded /\ Len(txn.borrowData) = 2
  /\ At("pay", 0) # {} /\ At("pay", 1) # {}
  /\ AcquiredAt(1) # {} /\ At("settle", 1) # {}

\* ------------------------------------------------------------ the liquidity request
\* C29: the liquidity of step k is asked of the pool of step k of the plan, by flash when
\* the step is a flash loan and by swap when it is not, for the resolved amount of the
\* underlying of the step's market: a flash takes that amount on the underlying's side of
\* the pair and nothing on the other side (the fee is due on that side only), a swap
\* takes that amount as exact output of the underlying
C29_LiquidityRequest ==
  (PendingCallback /\ txn.fn = "migrate") =>
    LET f == Top(stack)
        k == f.data.step
        bd == Resolved[k + 1]
        U == Underlying(bd.borrowCToken)
        O == IF Token0(f.pool) = U THEN Token1(f.pool) ELSE Token0(f.pool)
        a == log[Len(log)]
    IN /\ k + 1 \in DOMAIN Resolved
       /\ f.pool = bd.pool
       /\ f.kind = (IF bd.isFlashLoan THEN "flash" ELSE "swap")
       /\ U \in {Token0(f.pool), Token1(f.pool)}
       /\ a = Ev(f.kind, k, bd.pool, U, bd.borrowAmount)
       /\ ledger.bal[U][f.pool] = pre.ledger.bal[U][f.pool] - bd.borrowAmount
       /\ ledger.bal[O][f.pool] = pre.ledger.bal[O][f.pool]
       /\ f.kind = "flash" =>
            IF Token0(f.pool) = U
              THEN f.a0 = FlashFee(f.pool, bd.borrowAmount) /\ f.a1 = 0
              ELSE f.a1 = FlashFee(f.pool, bd.borrowAmount) /\ f.a0 = 0
       /\ f.kind = "swap" =>
            IF Token0(f.pool) = U
              THEN f.a0 = 0 - bd.borrowAmount /\ f.a1 = SwapIn(f.pool, bd.borrowAmount)
              ELSE f.a1 = 0 - bd.borrowAmount /\ f.a0 = SwapIn(f.pool, bd.borrowAmount)

\* the second step of a plan, a swap whose underlying is token1 of its pool, has been
\* asked of its pool, the first being a flash loan
C29_Witness ==
  /\ PendingCallback /\ txn.fn = "migrate"
  /\ Top(stack).data.step = 1 /\ Top(stack).kind = "swap"
  /\ Token1(Top(stack).pool) = Underlying(Resolved[2].borrowCToken)
  /\ Resolved[1].isFlashLoan

\* ------------------------------------------------------------ the swap variant
\* the total after the handler of step k: the one the next handler enters with, or the
\* one handed to settlement
TotalAfter(k) ==
  IF k < Len(txn.borrowData) - 1
    THEN {log[i].amt : i \in At("enter", k + 1)}
    ELSE {log[i].amt : i \in At("settle", k)}

HasNativeItem == \E j \in DOMAIN txn.collateral : txn.collateral[j].cToken = cETH

\* C31: a collateral item of the native market has its redeemed native balance wrapped
\* before the deposit, is deposited as the wrapped token, and leaves no native balance in
\* the migrator; the items of the other markets are deposited as their underlying and
\* nothing is wrapped for them
C31_NativeWrapped ==
  Succeeded =>
    /\ Len(SupplyEntries) = Len(txn.collateral)
    /\ \A j \in DOMAIN txn.collateral :
         SupplyEntries[j].tok = (IF txn.collateral[j].cToken = cETH
                                   THEN weth ELSE Underlying(txn.collateral[j].cToken))
    /\ HasNativeItem =>
         /\ ledger.bal["ETH"]["migrator"] = 0
         /\ ledger.bal["ETH"]["weth"] - pre.ledger.bal["ETH"]["weth"]
              = ledger.supplied[txn.caller][weth] - pre.ledger.supplied[txn.caller][weth]
    /\ ~HasNativeItem =>
         /\ ledger.bal["ETH"] = pre.ledger.bal["ETH"]
         /\ ledger.bal[weth] = pre.ledger.bal[weth]

\* a migration with an item of the native market, of amount above 0, has succeeded
C31_Witness ==
  /\ Succeeded /\ HasNativeItem
  /\ ledger.supplied[txn.caller][weth] > pre.ledger.supplied[txn.caller][weth]

\* a migration with an item of another market has succeeded while the migrator holds
\* a native balance
C31_WitnessOther ==
  /\ Succeeded /\ ~HasNativeItem /\ txn.collateral # << >>
  /\ ledger.bal["ETH"]["migrator"] > 0

\* ------------------------------------------------------------ the entry of migrate
\* C32: migrate resolves the amounts before it starts the chain: the amount asked and
\* repaid at a step is the caller's debt in the step's market as read at the entry when
\* the requested amount is the sentinel, and the requested amount itself otherwise; the
\* plan the contexts carry is the resolved one; the first context has step 0 and total
\* 0; the guard is 1 from the first request of liquidity to the end of the chain
C32_EntryResolves ==
  (txn.fn = "migrate" /\ outcome \in {"running", "success"}) =>
    /\ \A i \in DOMAIN log :
         log[i].e \in {"flash", "swap", "repay"} =>
           LET bd == txn.borrowData[log[i].step + 1]
           IN log[i].amt = (IF bd.borrowAmount = UintMax
                              THEN borrowBalanceCurrent(pre.ledger, bd.borrowCToken, txn.caller)
                              ELSE bd.borrowAmount)
    /\ \A i \in DOMAIN PoolContexts :
         /\ PoolContexts[i].borrowData = Resolved
         /\ PoolContexts[i].user = txn.caller
         /\ PoolContexts[i].collateral = txn.collateral
    /\ Len(log) >= 2 /\ log[1].e = "migrate" /\ IsAcquisition(log[2]) /\ log[2].step = 0
    /\ PoolContexts # << >> =>
         PoolContexts[1].step = 0 /\ PoolContexts[1].totalBaseToBorrow = 0
    /\ outcome = "running" => inMigration = 1

\* the first request of liquidity of a plan with a literal amount and the sentinel has
\* been made, the guard being 1
C32_Witness ==
  /\ txn.fn = "migrate" /\ outcome = "running" /\ Len(stack) = 2
  /\ Len(txn.borrowData) = 2
  /\ txn.borrowData[1].borrowAmount = UintMax /\ txn.borrowData[2].borrowAmount = 1
  /\ PendingCallback /\ inMigration = 1

\* ------------------------------------------------------------ a sweep that fails
\* C33: when, with the guard idle, the send of the native balance or the transfer of the
\* token to the sweepee reports failure, sweep fails with SweepFailure (0 for the native
\* balance, 1 for a token) and the balances of the migrator, of the sweepee and of every
\* other holder, and the guard, are as before the call
C33_SweepFailure ==
  [][(Idle /\ inMigration = 0) =>
       \A caller \in {"alice", "mallory"}, token \in SweepTokens :
         Sweep(caller, token, FALSE) =>
           /\ outcome' = "reverted"
           /\ lastError' = Err("SweepFailure", IF token = "null" THEN 0 ELSE 1, 0)
           /\ ledger' = ledger /\ inMigration' = inMigration /\ events' = events
           /\ stack' = << >>]_vars

\* a sweep of a balance the migrator holds has failed with SweepFailure
C33_Witness ==
  /\ outcome = "reverted" /\ txn.fn = "sweep" /\ lastError.name = "SweepFailure"
  /\ inMigration = 0
  /\ \E t \in Tokens : ledger.bal[t]["migrator"] > 0

\* ------------------------------------------------------------ a plan without steps
\* C34: a migrate whose borrowData is empty, with or without collateral items, never
\* succeeds: it fails at the read of borrowData[0], before any pool is called; no
\* collateral is moved, nothing is borrowed, and the guard is idle afterwards
C34_EmptyPlanFails ==
  [][(Idle /\ inMigration = 0 /\ txn'.fn = "migrate" /\ txn'.borrowData = << >>) =>
       \A c \in Collaterals :
         Migrate("alice", c, << >>) =>
           /\ outcome' = "reverted"
           /\ lastError' = Err("Panic", 50, 0)
           /\ ledger' = ledger /\ events' = events
           /\ inMigration' = 0 /\ stack' = << >>]_vars

\* a migrate has failed at the read of an entry of borrowData
C34_Witness ==
  /\ outcome = "reverted" /\ txn.fn = "migrate"
  /\ lastError = Err("Panic", 50, 0)
  /\ inMigration = 0 /\ stack = << >>

\* ------------------------------------------------------------ termination
\* a migrate call is under way
MigrateRunning == txn.fn = "migrate" /\ outcome = "running"

\* C35: when every pool calls back once and every call returns, a migrate call comes to
\* its end, in success or in failure; on the way its handlers are entered at most as many
\* times as the plan has steps, its frames are at most one for migrate and two for each
\* step, and in no state is the chain left with nothing to run
C35_Terminates ==
  /\ [](MigrateRunning =>
          /\ Len(EnterEntries) <= Len(txn.borrowData)
          /\ Len(stack) <= 1 + 2 * Len(txn.borrowData)
          /\ ChainCanRun)
  /\ [][ChainCanRun => (FlashCallback \/ SwapCallback \/ PoolReturn) /\ stack' # stack]_vars
  /\ (MigrateRunning ~> (stack = << >> /\ outcome \in {"success", "reverted"}))

\* a migration of two steps has come to its end in success
C35_Witness ==
  /\ Succeeded /\ Len(txn.borrowData) = 2 /\ Len(EnterEntries) = 2

\* a migration has come to its end in failure after its chain had started
C35_WitnessFailed ==
  /\ MigrateEnded /\ outcome = "reverted"
  /\ lastError.name \in {"CompoundV2Error", "PoolRevert"}

\* ============================================================= claims on the page
\* the fields of a token's state that a refresh reads from the chain
ChainFields ==
  {"allowance", "allowanceStableDebtToken", "allowanceVariableDebtToken", "balance",
   "borrowBalanceStable", "borrowBalanceVariable", "collateralFactor", "price"}

\* the fields of a token's state that the user sets
UserFields == {"repayAmountStable", "repayAmountVariable", "transfer", "swapRoute"}

\* ------------------------------------------------------------ clearing the amounts
\* C36: the reducer applied to a Hydrated state and ClearRepayAndTransferAmounts gives a
\* state where every token's stable repay amount, variable repay amount and transfer
\* amount are the empty string and the error is null, with the balances, allowances,
\* prices and the set of tokens as before.
C36_ClearEmptiesAmounts ==
  state.type = "Hydrated" =>
    LET next == reducer(state, ClearRepayAndTransferAmounts)
    IN  /\ next.type = "Hydrated"
        /\ next.data.error = "null"
        /\ DOMAIN next.data.aTokens = DOMAIN state.data.aTokens
        /\ \A sym \in DOMAIN state.data.aTokens :
             /\ next.data.aTokens[sym].repayAmountStable = ""
             /\ next.data.aTokens[sym].repayAmountVariable = ""
             /\ next.data.aTokens[sym].transfer = ""
             /\ \A f \in ChainFields : next.data.aTokens[sym][f] = state.data.aTokens[sym][f]

\* what the clearing case does: the transfer amounts emptied, the error null, and every
\* other field of the interface as before
C36_ClearEmptiesTransfers ==
  state.type = "Hydrated" =>
    LET next == reducer(state, ClearRepayAndTransferAmounts)
    IN  /\ next.type = "Hydrated"
        /\ next.data.error = "null"
        /\ DOMAIN next.data.aTokens = DOMAIN state.data.aTokens
        /\ \A sym \in DOMAIN state.data.aTokens :
             /\ next.data.aTokens[sym].transfer = ""
             /\ \A f \in ChainFields \cup (UserFields \ {"transfer"}) :
                  next.data.aTokens[sym][f] = state.data.aTokens[sym][f]

\* ------------------------------------------------- a refresh and the amounts typed
\* C37: a refresh of the account state never discards an amount the user entered: when
\* the refresh completes (its dispatch of SetAccountState), each token's repay amounts,
\* transfer amount and swap route are the ones the state held just before, whatever the
\* user has dispatched while the refresh was in flight.
C37_RefreshKeepsUserAmounts ==
  [][(CompleteRefresh /\ state.type = "Hydrated") =>
       \A sym \in Syms : \A f \in UserFields :
         state'.data.aTokens[sym][f] = state.data.aTokens[sym][f]]_vars

\* what the refresh does: the amounts after it are those of the state its closure holds
C37_RefreshRestoresClosure ==
  [][(CompleteRefresh /\ refresh.state.type = "Hydrated") =>
       \A sym \in Syms : \A f \in UserFields :
         state'.data.aTokens[sym][f] = refresh.state.data.aTokens[sym][f]]_vars

\* ------------------------------------------------- the reducer as a state machine
\* the key a set action writes, and the value it writes there
NamedKey(action) ==
  CASE action.type = "set-repay-amount" -> repayAmountKey(action.payload.type)
    [] action.type = "set-swap-route" -> "swapRoute"
    [] action.type = "set-transfer-for-atoken" -> "transfer"

NamedValue(action) ==
  CASE action.type = "set-repay-amount" -> action.payload.repayAmount
    [] action.type = "set-swap-route" -> action.payload.swapRoute
    [] action.type = "set-transfer-for-atoken" -> action.payload.transfer

\* every action but SetAccountState
OtherActions == SetActions \cup {ClearRepayAndTransferAmounts, SetError("Migration will fail if sent")}

\* C38: the state leaves Loading only through SetAccountState and never returns to
\* Loading; in Loading, ClearRepayAndTransferAmounts, SetRepayAmount, SetSwapRoute and
\* SetTransferForAToken return the state unchanged; in Hydrated, SetRepayAmount,
\* SetSwapRoute and SetTransferForAToken change only the named field of the named token,
\* leave every other token and field unchanged, and reset the error to null.
C38_ReducerStateMachine ==
  /\ [](/\ \A action \in OtherActions : reducer(state, action).type = state.type
        /\ state.type = "Loading" =>
             \A action \in SetActions \cup {ClearRepayAndTransferAmounts} :
               reducer(state, action) = state
        /\ state.type = "Hydrated" =>
             \A action \in SetActions :
               LET next == reducer(state, action)
               IN  /\ next.data.error = "null"
                   /\ next.data.migratorEnabled = state.data.migratorEnabled
                   /\ DOMAIN next.data.aTokens = DOMAIN state.data.aTokens
                   /\ \A sym \in DOMAIN state.data.aTokens :
                        \A f \in DOMAIN state.data.aTokens[sym] :
                          next.data.aTokens[sym][f] =
                            IF sym = action.payload.symbol /\ f = NamedKey(action)
                            THEN NamedValue(action)
                            ELSE state.data.aTokens[sym][f])
  /\ [][/\ (state.type = "Loading" /\ state'.type # "Loading") => CompleteRefresh
        /\ state.type = "Hydrated" => state'.type = "Hydrated"]_vars

\* the user has set the transfer amount of aWETH and clicked Max on its repay input;
\* the amounts of aUSDC are as the refresh left them
C38_Witness ==
  /\ state.type = "Hydrated"
  /\ dispatches = 2
  /\ state.data.aTokens["aWETH"].transfer = "1"
  /\ state.data.aTokens["aWETH"].repayAmountVariable = "max"
  /\ state.data.aTokens["aWETH"].swapRoute = "Loading"
  /\ state.data.aTokens["aWETH"].repayAmountStable = ""
  /\ \A f \in {"repayAmountStable", "repayAmountVariable", "transfer"} :
       state.data.aTokens["aUSDC"][f] = ""
  /\ state.data.aTokens["aUSDC"].swapRoute = "undefined"

\* ------------------------------------------------------------ the plan submitted
\* the parameters validateForm yields are those of a selection that can be migrated
ValidPlan(st, params) ==
  /\ st.type = "Hydrated"
  /\ st.data.migratorEnabled
  /\ hasMigratePosition(st)
  /\ \A i \in 1..Len(params.collateral) :
       LET item == params.collateral[i]
           asset == cometData.collateralAssets[item.aToken]
       IN  /\ item.amount > 0
           /\ item.amount <= st.data.aTokens[item.aToken].balance
           /\ asset.totalSupply + item.amount <= asset.supplyCap
  /\ \/ params.borrowAmount = MAX_UINT256
     \/ /\ params.borrowAmount <= st.data.aTokens["aUSDC"].borrowBalanceStable
        /\ params.borrowAmount <= cometData.baseAsset.balanceOfComet

\* C39: validateForm yields parameters only when the migrator is enabled, the state is
\* Hydrated and something is selected; in a yielded plan each collateral amount is
\* greater than 0, at most the user's balance and within the supply cap, and the repay
\* amount is the sentinel or at most the borrow balance and the base liquidity;
\* otherwise a click on migrate submits nothing.
C39_ValidatedPlan ==
  /\ [](validateForm(state).kind = "params" => ValidPlan(state, validateForm(state)))
  /\ [][(ClickMigrate /\ submitted' # NothingSent) =>
          /\ state.data.error = "null"
          /\ validateForm(state).kind = "params"
          /\ submitted'.collateral = validateForm(state).collateral
          /\ submitted'.borrowAmount = validateForm(state).borrowAmount]_vars

\* what validateForm ensures of a yielded plan: the limits of the claim, with amounts
\* of 0 among the collateral items
C39_PlanWithinLimits ==
  validateForm(state).kind = "params" =>
    LET params == validateForm(state)
    IN  /\ state.data.migratorEnabled /\ hasMigratePosition(state)
        /\ \A i \in 1..Len(params.collateral) :
             LET item == params.collateral[i]
                 asset == cometData.collateralAssets[item.aToken]
             IN  /\ item.amount >= 0
                 /\ item.amount <= state.data.aTokens[item.aToken].balance
                 /\ asset.totalSupply + item.amount <= asset.supplyCap
        /\ \/ params.borrowAmount = MAX_UINT256
           \/ /\ params.borrowAmount <= state.data.aTokens["aUSDC"].borrowBalanceStable
              /\ params.borrowAmount <= cometData.baseAsset.balanceOfComet

====
